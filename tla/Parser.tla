------------------------------- MODULE Parser -------------------------------
(* What the grammar's productions (src/topaz/parser.py) make of a program:  *)
(* the tree of phrases in, the syntax tree with its symbol tables out.      *)
(* A phrase is a record with a tag t; its parts are read in the order the   *)
(* text has them, because reading a part declares names in the tables of    *)
(* the scopes (src/topaz/astcompiler.py).                                   *)
EXTENDS Numbers, SequencesExt, TLC

None == [t |-> "none"]
Node(tag) == [t |-> tag]

-----------------------------------------------------------------------------
(* Symbol tables: st is the stack of open scopes, the innermost last.       *)

NewScope(kind) == [kind |-> kind, cells |-> <<>>, args |-> <<>>]

Declared(st, i, name, how) == [st EXCEPT ![i].cells = (name :> how) @@ @]

RECURSIVE IsDefined(_, _, _), Upgrade(_, _, _), DeclareWrite(_, _, _)

(* is_defined of SymbolTable and BlockSymbolTable.                          *)
IsDefined(st, i, name) ==
  name \in DOMAIN st[i].cells \/ (st[i].kind # "local" /\ IsDefined(st, i - 1, name))

(* upgrade_to_closure: every block between here and the owner shares it.    *)
Upgrade(st, i, name) ==
  IF st[i].kind = "local" \/ name \in DOMAIN st[i].cells THEN st
  ELSE Declared(Upgrade(st, i - 1, name), i, name, "free")

DeclareRead(st, i, name) ==
  IF st[i].kind # "local" /\ name \notin DOMAIN st[i].cells /\ IsDefined(st, i - 1, name)
  THEN Declared(Upgrade(st, i - 1, name), i, name, "free") ELSE st

(* A scope shared with its parent (for) declares the name there first.      *)
DeclareWrite(st, i, name) ==
  LET s == IF st[i].kind = "shared" THEN DeclareWrite(st, i - 1, name) ELSE st
  IN IF name \in DOMAIN s[i].cells THEN s
     ELSE IF IsDefined(s, i, name) THEN DeclareRead(s, i, name) ELSE Declared(s, i, name, "cell")

DeclareArgument(st, name, type) ==
  [Declared(st, Len(st), name, "cell") EXCEPT ![Len(st)].args = Append(@, [name |-> name, type |-> type])]

-----------------------------------------------------------------------------
(* The order in which a phrase's parts are read.  "push" and "pop" open and *)
(* close its scope; the collection of a for is read outside its scope, a    *)
(* statement before the condition that modifies it.                         *)
Order ==
  [seq |-> <<"stmts">>, begin |-> <<"body", "handlers", "els", "ens">>, alias |-> <<"new", "old">>, undef |-> <<"name">>,
   ifmod |-> <<"body", "cond">>, unlessmod |-> <<"body", "cond">>, whilemod |-> <<"body", "cond">>,
   untilmod |-> <<"body", "cond">>, rescuemod |-> <<"body", "alt">>,
   asgn |-> <<"target", "value">>, asgnlist |-> <<"target", "values">>, asgnrescue |-> <<"target", "value", "alt">>,
   opasgn |-> <<"target", "value">>, opasgnrescue |-> <<"target", "value", "alt">>,
   masgn |-> <<"targets", "value">>, masgnlist |-> <<"targets", "values">>,
   and |-> <<"lhs", "rhs">>, or |-> <<"lhs", "rhs">>, is |-> <<"lhs", "rhs">>, not |-> <<"expr">>,
   cmd |-> <<"recv", "args", "blk">>, fcmd |-> <<"args", "blk">>,
   dot2 |-> <<"lhs", "rhs">>, dot3 |-> <<"lhs", "rhs">>, binary |-> <<"lhs", "rhs">>, negpow |-> <<"lhs", "rhs">>,
   unary |-> <<"expr">>, defined |-> <<"expr">>, ternary |-> <<"cond", "body", "els">>,
   call |-> <<"recv", "args", "blk">>, fcall |-> <<"args", "blk">>, super |-> <<"args", "blk">>,
   yield |-> <<"args">>, return |-> <<"args">>, break |-> <<"args">>, next |-> <<"args">>,
   splat |-> <<"expr">>, assocs |-> <<"items">>, blockpass |-> <<"expr">>,
   array |-> <<"items">>, hash |-> <<"items">>, attr |-> <<"recv">>, index |-> <<"recv", "args">>, colon2 |-> <<"scope">>,
   msplat |-> <<"target">>, mlhs |-> <<"targets">>, opt |-> <<"defl">>, mparam |-> <<"targets">>,
   string |-> <<"parts">>, strings |-> <<"strs">>, xstring |-> <<"parts">>, dsym |-> <<"parts">>, words |-> <<"items">>,
   interp |-> <<"stmts">>,
   if |-> <<"cond", "body", "els">>, elsif |-> <<"cond", "body", "els">>, unless |-> <<"cond", "body", "els">>,
   while |-> <<"cond", "body">>, until |-> <<"cond", "body">>,
   case |-> <<"cond", "whens", "els">>, when |-> <<"conds", "body">>, handler |-> <<"classes", "target", "body">>,
   block |-> <<"push", "params", "body", "pop">>, lambda |-> <<"push", "params", "body", "pop">>,
   def |-> <<"push", "params", "fargs", "body", "pop">>, defs |-> <<"singleton", "push", "params", "fargs", "body", "pop">>,
   class |-> <<"path", "super", "push", "body", "pop">>, sclass |-> <<"expr", "push", "body", "pop">>,
   module |-> <<"path", "push", "body", "pop">>, for |-> <<"push", "target", "hide", "coll", "unhide", "body", "pop">>]
PushKind == [block |-> "block", lambda |-> "block", for |-> "shared", def |-> "local", defs |-> "local", class |-> "local",
             sclass |-> "local", module |-> "local"]
ListParts == {"stmts", "targets", "values", "args", "whens", "conds", "handlers", "classes", "items", "params", "parts", "strs"}

(* What a phrase declares once its parts are read: assignable, var_ref,     *)
(* _arg_to_variable, bvar; then the parameters (f_arg_item, f_opt,          *)
(* f_block_opt, f_rest_arg, f_block_arg, block_param with a comma left).    *)
DeclaresVariable(st, p) ==
  CASE p.t = "lvar" -> DeclareWrite(st, Len(st), p.name)
    [] p.t = "id" -> DeclareRead(st, Len(st), p.name)
    [] p.t \in {"plocal", "bvar"} -> Declared(st, Len(st), p.name, "cell")
    [] OTHER -> st
DeclaresParameter(st, p) ==
  CASE p.t \in {"req", "opt"} -> DeclareArgument(st, p.name, "normal")
    [] p.t = "rest" -> DeclareArgument(st, p.name, "splat")
    [] p.t = "blockarg" -> DeclareArgument(st, p.name, "block")
    [] p.t = "comma" -> DeclareArgument(st, "*", "normal")

-----------------------------------------------------------------------------
(* What each production builds, one operator for each part of the grammar.  *)

Nothing == Node("Nil")
OrNil(x) == IF x.t = "none" THEN Nothing ELSE x
BlockOf(stmts) == IF stmts = <<>> THEN Nothing ELSE [t |-> "Block", stmts |-> stmts]
SendNode(recv, name, args, blk) == [t |-> "Send", recv |-> recv, name |-> name, args |-> args, blk |-> blk]
IfNode(cond, body, els) == [t |-> "If", cond |-> cond, body |-> OrNil(body), els |-> OrNil(els)]
WhileNode(p, until) == [t |-> "While", cond |-> p.cond, body |-> OrNil(p.body), until |-> until]
VariableNode(name) == [t |-> "Variable", name |-> name]
LookupConstant(scope, name) == [t |-> "LookupConstant", scope |-> scope, name |-> name]
ArrayNode(items) == [t |-> "Array", items |-> items]
Assigned(target, value) == [t |-> "Assignment", target |-> target, value |-> value]
AllAssigned(targets, value) == [t |-> "MultiAssignment", targets |-> targets, value |-> value]
TryNode(body, handlers, els) == [t |-> "TryExcept", body |-> body, handlers |-> handlers, els |-> els]
(* A rescue modifier, of a statement or of a value.                         *)
Rescued(body, alt) ==
  TryNode(body, <<[t |-> "handler", classes |-> <<LookupConstant(Node("Scope"), "StandardError")>>, target |-> None, body |-> alt]>>,
          Nothing)

(* _array_or_node, new_return, new_next, new_break.                         *)
ArrayOrNode(args) == IF Len(args) = 1 THEN args[1] ELSE ArrayNode(args)
LeaveNode(p, tag) == [t |-> tag, expr |-> IF p.args = <<>> THEN Nothing ELSE ArrayOrNode(p.args)]

(* new_call, new_fcall, new_super: a block argument is one of the arguments; *)
(* combine_send_block: a block is added to the call that stands before it.  *)
CombineSendBlock(send, block) == [send EXCEPT !.blk = block]
CallNode(recv, name, p) ==
  IF p.blk.t = "SendBlock" THEN CombineSendBlock(SendNode(recv, name, p.args, None), p.blk) ELSE SendNode(recv, name, p.args, p.blk)
SuperNode(args, blk) == [t |-> "Super", args |-> args, blk |-> blk]

(* new_hash: the pairs stand one after the other.                           *)
NewHash(items) == [t |-> "Hash", pairs |-> [i \in 1..(Len(items) \div 2) |-> <<items[2 * i - 1], items[2 * i]>>]]

(* concat_literals: an empty constant head is dropped.                      *)
PartsOf(n) == IF n.t = "DynamicString" THEN n.parts ELSE <<n>>
ConcatLiterals(head, tail) ==
  CASE head.t = "none" -> tail
    [] head.t # "none" /\ tail.t = "none" -> head
    [] head.t = "ConstantString" /\ tail.t = "ConstantString" -> [head EXCEPT !.strvalue = @ \o tail.strvalue]
    [] OTHER -> [t |-> "DynamicString",
                 parts |-> (IF head.t = "ConstantString" /\ head.strvalue = "" THEN <<>> ELSE PartsOf(head)) \o PartsOf(tail)]

(* new_augmented_assignment.                                                *)
AugmentedNode(op, target, value) ==
  CASE op = "||" -> [t |-> "OrEqual", target |-> target, value |-> value]
    [] op = "&&" -> [t |-> "AndEqual", target |-> target, value |-> value]
    [] OTHER     -> [t |-> "AugmentedAssignment", oper |-> op, target |-> target, value |-> value]

(* bodystmt: an else clause counts only where there is no rescue clause.    *)
BodyStmt(p) ==
  LET body == OrNil(p.body)
      tried == IF p.handlers # <<>> THEN TryNode(body, p.handlers, Nothing)
               ELSE IF p.els.t # "none" THEN TryNode(body, <<>>, p.els) ELSE body
  IN IF p.ens.t = "none" THEN tried ELSE [t |-> "TryFinally", body |-> tried, ens |-> p.ens]

(* stmt: alias, undef, the modifiers.                                       *)
Stmt(p) ==
  CASE p.t = "alias"     -> [t |-> "Alias", new |-> p.new, old |-> p.old]
    [] p.t = "undef"     -> [t |-> "Undef", names |-> <<p.name>>]
    [] p.t = "ifmod"     -> IfNode(p.cond, p.body, Nothing)
    [] p.t = "unlessmod" -> IfNode(p.cond, Nothing, p.body)
    [] p.t = "whilemod"  -> WhileNode(p, FALSE)
    [] p.t = "untilmod"  -> WhileNode(p, TRUE)
    [] p.t = "rescuemod" -> Rescued(p.body, p.alt)

(* stmt: assignments of several values or to several targets.               *)
StmtAssign(p) ==
  CASE p.t = "asgnlist"  -> Assigned(p.target, ArrayNode(p.values))
    [] p.t = "masgn"     -> AllAssigned(p.targets, p.value)
    [] p.t = "masgnlist" -> AllAssigned(p.targets, ArrayNode(p.values))

(* expr, command: is, and, or, not, calls whose arguments have no parentheses. *)
Expr(p) ==
  CASE p.t = "is"  -> [t |-> "Is", lhs |-> p.lhs, rhs |-> p.rhs]
    [] p.t = "and" -> [t |-> "And", lhs |-> p.lhs, rhs |-> p.rhs]
    [] p.t = "or"  -> [t |-> "Or", lhs |-> p.lhs, rhs |-> p.rhs]
    [] p.t = "not" -> SendNode(p.expr, "!", <<>>, None)
    [] p.t = "cmd" -> CallNode(p.recv, p.name, p)
    [] p.t = "fcmd" -> CallNode(Node("Self"), p.name, p)
    [] p.t = "yield"  -> [t |-> "Yield", args |-> p.args]
    [] p.t = "return" -> LeaveNode(p, "Return")
    [] p.t = "break"  -> LeaveNode(p, "Break")
    [] p.t = "next"   -> LeaveNode(p, "Next")

(* mlhs_basic, mlhs_item: the targets of a multiple assignment.             *)
Mlhs(p) ==
  CASE p.t = "mlhs"   -> [t |-> "MultiAssignable", targets |-> p.targets]
    [] p.t = "msplat" -> [t |-> "Splat", expr |-> p.target]

(* lhs, mlhs_node, cpath: what can be assigned.                             *)
Lhs(p) ==
  CASE p.t = "lvar"   -> VariableNode(p.name)
    [] p.t = "index"  -> [t |-> "Subscript", recv |-> p.recv, args |-> p.args]
    [] p.t = "attr"   -> SendNode(p.recv, p.name, <<>>, None)
    [] p.t = "colon2" -> LookupConstant(p.scope, p.name)
    [] p.t = "colon3" -> LookupConstant(None, p.name)
    [] p.t = "cname"  -> LookupConstant(Node("Scope"), p.name)

(* arg: the assignments, with and without a rescue of the value.            *)
ArgAssign(p) ==
  CASE p.t = "asgn"       -> Assigned(p.target, p.value)
    [] p.t = "asgnrescue" -> Assigned(p.target, Rescued(p.value, p.alt))
    [] p.t = "opasgn"     -> AugmentedNode(p.op, p.target, p.value)
    [] p.t = "opasgnrescue" -> AugmentedNode(p.op, p.target, Rescued(p.value, p.alt))

(* arg: the operators; a minus before a power of a number comes last.       *)
Arg(p) ==
  CASE p.t = "dot2"    -> [t |-> "Range", from |-> p.lhs, to |-> p.rhs, exclusive |-> FALSE]
    [] p.t = "dot3"    -> [t |-> "Range", from |-> p.lhs, to |-> p.rhs, exclusive |-> TRUE]
    [] p.t = "binary"  -> SendNode(p.lhs, p.op, <<p.rhs>>, None)
    [] p.t = "negpow"  -> SendNode(SendNode(p.lhs, "**", <<p.rhs>>, None), "-@", <<>>, None)
    [] p.t = "unary"   -> SendNode(p.expr, p.op, <<>>, None)
    [] p.t = "defined" -> [t |-> "Defined", expr |-> p.expr]
    [] p.t = "ternary" -> IfNode(p.cond, p.body, p.els)

(* args, call_args: splats, pairs without braces, a block argument.         *)
CallArg(p) ==
  CASE p.t = "splat"     -> [t |-> "Splat", expr |-> p.expr]
    [] p.t = "assocs"    -> NewHash(p.items)
    [] p.t = "blockpass" -> [t |-> "BlockArgument", expr |-> p.expr]

(* primary: sequences in parentheses, arrays, hashes.                       *)
Primary(p) ==
  CASE p.t = "seq"   -> BlockOf(p.stmts)
    [] p.t = "array" -> ArrayNode(p.items)
    [] p.t = "hash"  -> NewHash(p.items)

(* primary_case: without a subject, the conditions of a when are joined by  *)
(* or, and the whens nest as ifs.                                           *)
CaseNode(p) ==
  IF p.cond.t # "none" THEN [t |-> "Case", cond |-> p.cond, whens |-> p.whens, els |-> OrNil(p.els)]
  ELSE FoldRight(LAMBDA w, els: IfNode(FoldLeft(LAMBDA a, b: [t |-> "Or", lhs |-> a, rhs |-> b], Head(w.conds), Tail(w.conds)), w.body, els),
                 p.whens, OrNil(p.els))

(* for: the block's only argument is "0", its variables are assigned from it. *)
StmtsOf(body) == CASE body.t = "Block" -> body.stmts [] body.t \in {"Nil", "none"} -> <<>> [] OTHER -> <<body>>
SendBlockNode(args, splat, blockarg, body, cells) ==
  [t |-> "SendBlock", args |-> args, splat |-> splat, blockarg |-> blockarg, body |-> body, cells |-> cells]
ForLoop(p) ==
  LET item == VariableNode("0")
      each == IF p.target.t = "MultiAssignable" THEN AllAssigned(p.target.targets, item) ELSE Assigned(p.target, item)
      block == SendBlockNode(<<[name |-> "0", defl |-> None]>>, "", "", BlockOf(<<each>> \o StmtsOf(p.body)), p.cells)
  IN SendNode(p.coll, "each", <<>>, block)

Control(p) ==
  CASE p.t \in {"if", "elsif"} -> IfNode(p.cond, p.body, p.els)
    [] p.t = "unless" -> IfNode(p.cond, p.els, p.body)
    [] p.t = "while"  -> WhileNode(p, FALSE)
    [] p.t = "until"  -> WhileNode(p, TRUE)
    [] p.t = "case"   -> CaseNode(p)
    [] p.t = "for"    -> ForLoop(p)

(* The parameters; one that is a pattern is replaced by an argument named   *)
(* by its position and an assignment before the body (new_send_block).      *)
Positional(params) == SelectSeq(params, LAMBDA a: a.t \in {"req", "opt", "mparam"})
NameOf(params, tag) == LET s == SelectSeq(params, LAMBDA a: a.t = tag) IN IF s = <<>> THEN "" ELSE s[1].name
SplatOf(params) == IF \E i \in 1..Len(params) : params[i].t = "comma" THEN "*" ELSE NameOf(params, "rest")
Argument(a, i) == [name |-> IF a.t = "mparam" THEN ToString(i - 1) ELSE a.name, defl |-> IF a.t = "opt" THEN a.defl ELSE None]
ArgumentsOf(params) == LET args == Positional(params) IN [i \in 1..Len(args) |-> Argument(args[i], i)]
Unpacking(args) ==
  FoldLeft(LAMBDA s, i: IF args[i].t = "mparam" THEN <<AllAssigned(args[i].targets, VariableNode(ToString(i - 1)))>> \o s ELSE s,
           <<>>, [i \in 1..Len(args) |-> i])
NewSendBlock(p) ==
  SendBlockNode(ArgumentsOf(p.params), SplatOf(p.params), NameOf(p.params, "blockarg"),
                BlockOf(Unpacking(Positional(p.params)) \o StmtsOf(p.body)), p.cells)

(* f_args with a rest argument before the others: the method takes all its  *)
(* arguments as the splat "2" and takes it apart first (getfullbody).       *)
RestFirst(params) == Len(params) >= 2 /\ params[1].t = "rest" /\ params[2].t = "req"
FunctionNode(p, parent) ==
  LET named == SelectSeq(p.params, LAMBDA a: a.t = "req")
      apart == AllAssigned(<<[t |-> "Splat", expr |-> VariableNode(p.params[1].name)]>>
                           \o [i \in 1..Len(named) |-> VariableNode(named[i].name)], VariableNode("2"))
      rest == RestFirst(p.params)
  IN [t |-> "Function", parent |-> parent, name |-> p.name, cells |-> p.cells, blockarg |-> NameOf(p.params, "blockarg"),
      args |-> IF rest THEN <<>> ELSE ArgumentsOf(p.params), splat |-> IF rest THEN "2" ELSE SplatOf(p.params),
      body |-> IF rest THEN BlockOf(<<apart>> \o StmtsOf(p.body)) ELSE OrNil(p.body)]

(* class, class <<, module, def.                                            *)
Definition(p) ==
  CASE p.t = "class"  -> [t |-> "Class", scope |-> p.path.scope, name |-> p.path.name, super |-> p.super, body |-> OrNil(p.body), cells |-> p.cells]
    [] p.t = "sclass" -> [t |-> "SingletonClass", expr |-> p.expr, body |-> OrNil(p.body), cells |-> p.cells]
    [] p.t = "module" -> [t |-> "Module", scope |-> p.path.scope, name |-> p.path.name, body |-> OrNil(p.body), cells |-> p.cells]
    [] p.t = "def"    -> FunctionNode(p, None)
    [] p.t = "defs"   -> FunctionNode(p, p.singleton)

(* lambda: its arguments are those of a method, no pattern is taken apart.  *)
LambdaNode(p) ==
  [t |-> "Lambda", block |-> SendBlockNode(ArgumentsOf(p.params), SplatOf(p.params), NameOf(p.params, "blockarg"), OrNil(p.body), p.cells)]

(* method_call: super without arguments passes on those of the scope.       *)
ImplicitArgs(scope) ==
  FoldLeft(LAMBDA s, a: CASE a.type = "block" -> s
                          [] a.type = "splat" -> Append(s, [t |-> "Splat", expr |-> VariableNode(a.name)])
                          [] OTHER -> Append(s, VariableNode(a.name)), <<>>, scope.args)
MethodCall(p, st) ==
  CASE p.t = "call"   -> CallNode(p.recv, p.name, p)
    [] p.t = "fcall"  -> CallNode(Node("Self"), p.name, p)
    [] p.t = "super"  -> SuperNode(p.args, p.blk)
    [] p.t = "zsuper" -> SuperNode(ImplicitArgs(Last(st)), None)
    [] p.t = "block"  -> NewSendBlock(p)

(* Strings: what is between the quotes is put together from the left; an    *)
(* empty #{} adds nothing.                                                  *)
Text(s) == [t |-> "ConstantString", strvalue |-> s]
Contents(start, parts) == FoldLeft(ConcatLiterals, start, parts)
SymbolOf(n) ==
  CASE n.t = "none" -> [t |-> "ConstantSymbol", name |-> ""]
    [] n.t = "ConstantString" -> [t |-> "ConstantSymbol", name |-> n.strvalue]
    [] OTHER -> [t |-> "Symbol", value |-> n]
Literal(p) ==
  CASE p.t = "content" -> Text(p.text)
    [] p.t = "interp"  -> IF p.stmts = <<>> THEN None ELSE [t |-> "DynamicString", parts |-> <<BlockOf(p.stmts)>>]
    [] p.t = "string"  -> Contents(Text(""), p.parts)
    [] p.t = "strings" -> Contents(Head(p.strs), Tail(p.strs))
    [] p.t = "xstring" -> SendNode(Node("Self"), "backquote", <<Contents(None, p.parts)>>, None)
    [] p.t = "dsym"    -> SymbolOf(Contents(None, p.parts))
    [] p.t = "words"   -> ArrayNode(p.items)

(* numeric: what does not fit the machine's integers is a bignum; the minus  *)
(* comes after.                                                             *)
ParseInt(digits) == NewintOrBigint(digits)
Numeric(i) ==
  LET n == ParseInt(IF i < 0 THEN -i ELSE i)
  IN [t |-> "value", value |-> IF i < 0 THEN <<n[1], -n[2]>> ELSE n]

(* var_ref: a name that is not a variable here is a call.                   *)
VarRef(p, st) ==
  IF IsDefined(st, Len(st), p.name) THEN VariableNode(p.name) ELSE SendNode(Node("Self"), p.name, <<>>, None)

Build(p, st) ==
  CASE p.t \in {"alias", "undef", "ifmod", "unlessmod", "whilemod", "untilmod", "rescuemod"} -> Stmt(p)
    [] p.t \in {"asgnlist", "masgn", "masgnlist"} -> StmtAssign(p)
    [] p.t \in {"is", "and", "or", "not", "cmd", "fcmd", "yield", "return", "break", "next"} -> Expr(p)
    [] p.t \in {"mlhs", "msplat"} -> Mlhs(p)
    [] p.t \in {"lvar", "index", "attr", "colon2", "colon3", "cname"} -> Lhs(p)
    [] p.t \in {"asgn", "asgnrescue", "opasgn", "opasgnrescue"} -> ArgAssign(p)
    [] p.t \in {"dot2", "dot3", "binary", "negpow", "unary", "defined", "ternary"} -> Arg(p)
    [] p.t \in {"splat", "assocs", "blockpass"} -> CallArg(p)
    [] p.t = "begin"  -> BodyStmt(p)
    [] p.t \in {"seq", "array", "hash"} -> Primary(p)
    [] p.t \in {"if", "elsif", "unless", "while", "until", "case", "for"} -> Control(p)
    [] p.t \in {"class", "sclass", "module", "def", "defs"} -> Definition(p)
    [] p.t = "lambda" -> LambdaNode(p)
    [] p.t \in {"call", "fcall", "super", "zsuper", "block"} -> MethodCall(p, st)
    [] p.t \in {"content", "interp", "string", "strings", "xstring", "dsym", "words"} -> Literal(p)
    [] p.t = "number" -> Numeric(p.value)
    [] p.t = "id"     -> VarRef(p, st)
    [] p.t = "plocal" -> VariableNode(p.name)
    [] OTHER          -> p

-----------------------------------------------------------------------------
RECURSIVE Parse(_, _)
ParseAll(st, phrases) ==
  FoldLeft(LAMBDA a, p: LET r == Parse(a.st, p) IN [st |-> r.st, asts |-> Append(a.asts, r.ast)],
           [st |-> st, asts |-> <<>>], phrases)

(* The scope a phrase opened is closed: its table stays with the node.  The *)
(* arguments that stand for patterns are declared last, the argument of a   *)
(* for when its variables have been read, the splat of a method that takes  *)
(* its arguments apart when its parameters have.                            *)
Patterns(p) == IF p.t # "block" THEN <<>>
               ELSE LET args == Positional(p.params)
                    IN SelectSeq([i \in 1..Len(args) |-> i], LAMBDA i: args[i].t = "mparam")
ParsePart(a, part) ==
  CASE part = "push"   -> [a EXCEPT !.st = Append(@, NewScope(PushKind[a.p.t]))]
    [] part = "hide"   -> [a EXCEPT !.st = Front(@), !.hidden = Declared(a.st, Len(a.st), "0", "cell")[Len(a.st)]]
    [] part = "unhide" -> [a EXCEPT !.st = Append(@, a.hidden)]
    [] part = "fargs"  -> IF RestFirst(a.p.params) THEN [a EXCEPT !.st = DeclareArgument(@, "2", "splat")] ELSE a
    [] part = "pop"    ->
         LET st == FoldLeft(LAMBDA s, i: DeclareArgument(s, ToString(i - 1), "normal"), a.st, Patterns(a.p))
         IN [a EXCEPT !.st = Front(@), !.p = [cells |-> Last(st).cells] @@ @]
    [] part \in ListParts -> LET r == ParseAll(a.st, a.p[part]) IN [a EXCEPT !.st = r.st, !.p[part] = r.asts]
    [] OTHER           -> LET r == Parse(a.st, a.p[part]) IN [a EXCEPT !.st = r.st, !.p[part] = r.ast]

Parse(st, p) ==
  LET parts == IF p.t \in DOMAIN Order THEN Order[p.t] ELSE <<>>
      r == FoldLeft(ParsePart, [st |-> st, p |-> p, hidden |-> <<>>], parts)
      after == IF p.t \in {"req", "opt", "rest", "blockarg", "comma"} THEN DeclaresParameter(r.st, r.p) ELSE DeclaresVariable(r.st, r.p)
  IN [st |-> after, ast |-> Build(r.p, after)]

(* The main program.                                                        *)
ParseProgram(p) ==
  LET r == Parse(<<NewScope("local")>>, p) IN [t |-> "Main", body |-> OrNil(r.ast), cells |-> r.st[1].cells]
=============================================================================
