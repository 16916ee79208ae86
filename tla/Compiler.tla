------------------------------ MODULE Compiler ------------------------------
(* Syntax trees to bytecode: the compile methods of src/topaz/ast.py and    *)
(* the CompilerContext of src/topaz/astcompiler.py.                         *)
(* A node's compile method is given as the sequence of what it emits: an    *)
(* instruction, a jump to a label, a label, a child node.  Every block that *)
(* a compile method makes is put in place by use_next_block, so the blocks  *)
(* form one chain and post_order is the order of emission; a block is then  *)
(* a label in one sequence of instructions <<opcode, arg0, arg1>>, where an *)
(* argument is the constant or the label's position itself.                 *)
EXTENDS Parser

InAnyOrder(S) == FoldSet(LAMBDA x, s: Append(s, x), <<>>, S)

O(op)         == <<"emit", op, 0, 0>>
O1(op, a)     == <<"emit", op, a, 0>>
O2(op, a, b)  == <<"emit", op, a, b>>
J(op, label)  == <<"jump", op, label>>
L(label)      == <<"label", label>>
Arm(label, i)  == label \o ToString(i)
N(node)       == <<"node", node>>
Deref(op, name) == <<"deref", op, name>>
Loop          == <<"loop">>
EndLoop       == <<"endloop">>

Each(s, Op(_)) == FlattenSeq([i \in 1..Len(s) |-> Op(s[i])])
Nodes(s) == [i \in 1..Len(s) |-> N(s[i])]
IsSplat(args) == \E i \in 1..Len(args) : args[i].t = "Splat"

(* Arguments of a call or a yield: with a splat every argument is an array. *)
Arguments(args) ==
  IF IsSplat(args) THEN Each(args, LAMBDA a: IF a.t = "Splat" THEN <<N(a)>> ELSE <<N(a), O1("BUILD_ARRAY", 1)>>)
  ELSE Nodes(args)

-----------------------------------------------------------------------------
(* The module of a constant: nothing stands for Object.                     *)
ScopeOf(n) == IF n.scope.t = "none" THEN O1("LOAD_CONST", <<"class", "Object">>) ELSE N(n.scope)

(* Targets: compile_receiver, compile_load and compile_store, and how many  *)
(* values the receiver leaves.                                              *)

RECURSIVE Receiver(_), ReceiverSize(_)
Receiver(x) ==
  CASE x.t = "Send"     -> <<N(x.recv)>>
    [] x.t = "ivar"     -> <<O("LOAD_SELF")>>
    [] x.t \in {"Constant", "cvar"} -> <<O("LOAD_SCOPE")>>
    [] x.t = "LookupConstant" -> <<ScopeOf(x)>>
    [] x.t = "Splat" /\ x.expr.t # "none" -> Receiver(x.expr)
    [] x.t = "Subscript" /\ IsSplat(x.args) ->
         <<N(x.recv)>> \o Arguments(x.args) \o (IF Len(x.args) # 1 THEN <<O1("BUILD_ARRAY_SPLAT", Len(x.args))>> ELSE <<>>)
    [] x.t = "Subscript" /\ ~IsSplat(x.args) -> <<N(x.recv)>> \o Nodes(x.args) \o <<O1("BUILD_ARRAY", Len(x.args))>>
    [] OTHER -> <<>>

ReceiverSize(x) ==
  CASE x.t \in {"Send", "ivar", "Constant", "cvar", "LookupConstant"} -> 1
    [] x.t = "Subscript" -> 2
    [] x.t = "Splat" /\ x.expr.t # "none" -> ReceiverSize(x.expr)
    [] OTHER -> 0

LoadTarget(x) ==
  CASE x.t = "Send"      -> <<O2("SEND", x.name, 0)>>
    [] x.t = "Subscript" -> <<O2("SEND_SPLAT", "[]", 1)>>
    [] x.t = "ivar"      -> <<O1("LOAD_INSTANCE_VAR", x.name)>>
    [] x.t = "cvar"      -> <<O1("LOAD_CLASS_VAR", x.name)>>
    [] x.t = "gvar"      -> <<O1("LOAD_GLOBAL", x.name)>>
    [] x.t = "Constant"  -> <<O1("LOAD_LOCAL_CONSTANT", x.name)>>
    [] x.t = "LookupConstant" -> <<O1("LOAD_CONSTANT", x.name)>>
    [] x.t = "Variable"  -> <<Deref("LOAD_DEREF", x.name)>>

(* The method name= of an attribute.                                        *)
Setter(name) == name \o "="

RECURSIVE StoreTarget(_), StoreAll(_)
StoreTarget(x) ==
  CASE x.t = "Send"      -> <<O2("SEND", Setter(x.name), 1)>>
    [] x.t = "Subscript" -> <<O1("BUILD_ARRAY", 1), O2("SEND_SPLAT", "[]=", 2)>>
    [] x.t = "ivar"      -> <<O1("STORE_INSTANCE_VAR", x.name)>>
    [] x.t = "cvar"      -> <<O1("STORE_CLASS_VAR", x.name)>>
    [] x.t = "gvar"      -> <<O1("STORE_GLOBAL", x.name)>>
    [] x.t \in {"Constant", "LookupConstant"} -> <<O1("STORE_CONSTANT", x.name)>>
    [] x.t = "Variable"  -> <<Deref("STORE_DEREF", x.name)>>
    [] x.t = "Splat"     -> IF x.expr.t = "none" THEN <<>> ELSE StoreTarget(x.expr)
    [] x.t = "MultiAssignable" -> StoreAll(x.targets)

(* The value stays below the receivers that are pushed after it.            *)
Rotated(x) ==
  CASE ReceiverSize(x) = 1 -> <<O("ROT_TWO")>> [] ReceiverSize(x) = 2 -> <<O("ROT_THREE"), O("ROT_THREE")>> [] OTHER -> <<>>
Popped(x) == Receiver(x) \o Rotated(x) \o StoreTarget(x) \o <<O("DISCARD_TOP")>>

(* MultiAssignable.compile_store.                                           *)
StoreAll(targets) ==
  LET splats == SelectSeq([i \in 1..Len(targets) |-> i], LAMBDA i: targets[i].t = "Splat")
  IN <<O("DUP_TOP"), O1("COERCE_ARRAY", 0),
       IF splats = <<>> THEN O1("UNPACK_SEQUENCE", Len(targets))
       ELSE O2("UNPACK_SEQUENCE_SPLAT", Len(targets), splats[1] - 1),
       O("BEGIN_MULTI_ASSIGNMENT")>>
     \o Each(targets, Popped) \o <<O("END_MULTI_ASSIGNMENT")>>

Dup(x) == CASE ReceiverSize(x) = 1 -> <<O("DUP_TOP")>> [] ReceiverSize(x) = 2 -> <<O("DUP_TWO")>> [] OTHER -> <<>>

-----------------------------------------------------------------------------
(* The statements of control.                                               *)

Conditional2(n) ==
  <<N(n.cond), J("JUMP_IF_FALSE", "otherwise"), N(n.body), J("JUMP", "end"), L("otherwise"), N(n.els), L("end")>>

BaseLoop(n) ==
  <<J("SETUP_LOOP", "end"), L("loop"), Loop, N(n.cond), J(IF n.until THEN "JUMP_IF_TRUE" ELSE "JUMP_IF_FALSE", "anchor"),
    N(n.body), O("DISCARD_TOP"), J("JUMP", "loop"), L("anchor"), O("POP_BLOCK"), EndLoop,
    O1("LOAD_CONST", <<"nil">>), L("end")>>

(* Case and the clauses of a rescue: try each test against the value on top. *)
Tests(tests, hit, miss) ==
  FlattenSeq([i \in 1..Len(tests) |-> <<O("DUP_TOP"), N(tests[i]), O("ROT_TWO"), O2("SEND", "===", 1),
                                        J("JUMP_IF_TRUE", hit), L(Arm(hit, i))>>])
  \o <<J("JUMP", miss)>>

When(n, i) ==
  Tests(n.whens[i].conds, Arm("when", i), Arm("after", i))
  \o <<L(Arm("when", i)), O("DISCARD_TOP"), N(n.whens[i].body), J("JUMP", "end"), L(Arm("after", i))>>
Case(n) ==
  <<N(n.cond)>> \o FlattenSeq([i \in 1..Len(n.whens) |-> When(n, i)]) \o <<O("DISCARD_TOP"), N(n.els), L("end")>>

Handler(h, i) ==
  (IF h.classes = <<>> THEN <<>> ELSE Tests(h.classes, Arm("handle", i), Arm("after", i)))
  \o <<L(Arm("handle", i))>>
  \o (IF h.target.t = "none" THEN <<>> ELSE Receiver(h.target) \o Rotated(h.target) \o StoreTarget(h.target))
  \o <<O("DISCARD_TOP"), O("DISCARD_TOP"), N(OrNil(h.body)), J("JUMP", "end"), L(Arm("after", i))>>
TryExcept(n) ==
  LET some == n.handlers # <<>>
  IN (IF some THEN <<J("SETUP_EXCEPT", "exc")>> ELSE <<>>) \o <<L("body"), N(n.body)>>
     \o (IF some THEN <<O("POP_BLOCK")>> ELSE <<>>) \o <<J("JUMP", "else"), L("exc")>>
     \o FlattenSeq([i \in 1..Len(n.handlers) |-> Handler(n.handlers[i], i)])
     \o (IF some THEN <<O("END_FINALLY")>> ELSE <<>>)
     \o <<L("else"), N(n.els), O("DISCARD_TOP"), L("end")>>

TryFinally(n) ==
  <<J("SETUP_FINALLY", "end"), L("body"), N(n.body), O("POP_BLOCK"), O1("LOAD_CONST", <<"nil">>),
    L("end"), N(n.ens), O("DISCARD_TOP"), O("END_FINALLY")>>

(* and, or: the left value is the value unless the jump is not taken.       *)
Junction(n, jump, end) ==
  <<N(n.lhs), O("DUP_TOP"), J(jump, "end"), L("otherwise"), O("DISCARD_TOP"), N(n.rhs), O(end), L("end")>>

(* target ||= value, target &&= value.                                      *)
OrAndEqual(n, jump) ==
  Receiver(n.target) \o Dup(n.target) \o LoadTarget(n.target)
  \o <<O("DUP_TOP"), J(jump, "end"), L("otherwise"), O("DISCARD_TOP"), N(n.value), L("end")>> \o StoreTarget(n.target)

AugmentedAssignment(n) ==
  Receiver(n.target) \o Dup(n.target) \o LoadTarget(n.target) \o <<N(n.value), O2("SEND", n.oper, 1)>> \o StoreTarget(n.target)

(* Send and Super: get_block of a super without one is the method's own.    *)
Call(n, recv, name, blk, plain, withBlock, plainSplat, blockSplat) ==
  <<recv>> \o Arguments(n.args) \o blk
  \o <<CASE IsSplat(n.args) /\ blk # <<>> -> O2(blockSplat, name, Len(n.args) + 1)
         [] IsSplat(n.args) -> O2(plainSplat, name, Len(n.args))
         [] blk # <<>>      -> O2(withBlock, name, Len(n.args) + 1)
         [] OTHER           -> O2(plain, name, Len(n.args))>>
BlockOfCall(n) == IF n.blk.t = "none" THEN <<>> ELSE <<N(n.blk)>>

(* Array: the items between splats are arrays of their own.                 *)
RECURSIVE ArrayParts(_, _, _)
ArrayParts(items, run, parts) ==
  IF items = <<>> THEN
    LET last == run > 0 \/ parts = 0
        n == parts + IF last THEN 1 ELSE 0
    IN (IF last THEN <<O1("BUILD_ARRAY", run)>> ELSE <<>>) \o (IF n # 1 THEN <<O1("BUILD_ARRAY_SPLAT", n)>> ELSE <<>>)
  ELSE IF Head(items).t = "Splat" THEN <<O1("BUILD_ARRAY", run), N(Head(items))>> \o ArrayParts(Tail(items), 0, parts + 2)
  ELSE <<N(Head(items))>> \o ArrayParts(Tail(items), run + 1, parts)

(* Next, Break, Return depend on where they stand.                          *)
Leaving(n, c) ==
  CASE n.t = "Return" -> <<N(n.expr), O(IF c.kind = "block" THEN "RAISE_RETURN" ELSE "RETURN")>>
    [] n.t = "Next"   -> IF c.loops # <<>> THEN <<N(n.expr), <<"continue">>>> ELSE <<N(n.expr), O("RETURN")>>
    [] n.t = "Break"  -> <<N(n.expr), O(IF c.loops # <<>> THEN "BREAK_LOOP" ELSE "RAISE_BREAK")>>

IsStatement(n) == n.t \notin {"Return", "Next", "Break"}
Block(n) ==
  FlattenSeq([i \in 1..Len(n.stmts) |->
                IF i < Len(n.stmts) /\ IsStatement(n.stmts[i]) THEN <<N(n.stmts[i]), O("DISCARD_TOP")>> ELSE <<N(n.stmts[i])>>])

(* Function, Class, SingletonClass, Module: what is defined, its body.      *)
DefinitionCode(n) ==
  LET name == O1("LOAD_CONST", <<"sym", n.name>>)
  IN CASE n.t = "Function" -> <<IF n.parent.t = "none" THEN O("LOAD_SCOPE") ELSE N(n.parent), name, name, <<"body", n>>, O("BUILD_FUNCTION"),
                                O(IF n.parent.t = "none" THEN "DEFINE_FUNCTION" ELSE "ATTACH_FUNCTION")>>
       [] n.t = "Class"    -> <<ScopeOf(n), name, N(OrNil(n.super)), O("BUILD_CLASS"), <<"body", n>>, O("EVALUATE_MODULE")>>
       [] n.t = "SingletonClass" -> <<N(n.expr), O("LOAD_SINGLETON_CLASS"), <<"body", n>>, O("EVALUATE_MODULE")>>
       [] n.t = "Module"   -> <<ScopeOf(n), name, O("BUILD_MODULE"), <<"body", n>>, O("EVALUATE_MODULE")>>

(* ConstantString, DynamicString: each part that is not constant is asked   *)
(* for its string.                                                          *)
String(s) == <<O1("LOAD_CONST", <<"sym", s>>), O("COERCE_STRING")>>
DynamicString(n) ==
  Each(n.parts, LAMBDA x: IF x.t = "ConstantString" THEN <<N(x)>> ELSE <<N(x), O2("SEND", "to_s", 0)>>)
  \o (IF Len(n.parts) # 1 THEN <<O1("BUILD_STRING", Len(n.parts))>> ELSE <<>>)

(* compile_defined: what kind of phrase it is; a name is looked up as the   *)
(* program runs, a receiver is computed first.                              *)
Super(c) == IF c.name = "<main>" THEN <<"nil">> ELSE c.name
RECURSIVE Defined(_, _)
Defined(n, c) ==
  CASE n.t = "Block" -> Defined(Last(n.stmts), c)
    [] n.t \in {"Assignment", "AugmentedAssignment", "MultiAssignment", "OrEqual", "AndEqual"} -> String("assignment")
    [] n.t = "Self"     -> String("self")
    [] n.t = "Variable" -> String("local-variable")
    [] n.t = "Nil"      -> String("nil")
    [] n.t = "value"    -> String(IF n.value[1] \in {"nil", "true", "false"} THEN n.value[1] ELSE "expression")
    [] n.t = "Constant" -> Receiver(n) \o <<O1("DEFINED_LOCAL_CONSTANT", n.name)>>
    [] n.t = "LookupConstant" -> Receiver(n) \o <<O1("DEFINED_CONSTANT", n.name)>>
    [] n.t = "ivar"     -> Receiver(n) \o <<O1("DEFINED_INSTANCE_VAR", n.name)>>
    [] n.t = "cvar"     -> Receiver(n) \o <<O1("DEFINED_CLASS_VAR", n.name)>>
    [] n.t = "gvar"     -> <<O1("DEFINED_GLOBAL", n.name)>>
    [] n.t = "Yield"    -> <<O("DEFINED_YIELD")>>
    [] n.t = "Send"     -> Receiver(n) \o <<O1("DEFINED_METHOD", n.name)>>
    [] n.t = "Super"    -> <<O("LOAD_SELF"), O1("DEFINED_SUPER", Super(c))>>
    [] OTHER            -> String("expression")

Emits(n, c) ==
  CASE n.t = "Block"      -> Block(n)
    [] n.t = "If"         -> Conditional2(n)
    [] n.t = "While"      -> BaseLoop(n)
    [] n.t \in {"Return", "Next", "Break"} -> Leaving(n, c)
    [] n.t = "TryExcept"  -> TryExcept(n)
    [] n.t = "TryFinally" -> TryFinally(n)
    [] n.t = "Case"       -> Case(n)
    [] n.t = "And"        -> Junction(n, "JUMP_AND", "JUMP_AND_END")
    [] n.t = "Or"         -> Junction(n, "JUMP_OR", "JUMP_OR_END")
    [] n.t = "OrEqual"    -> OrAndEqual(n, "JUMP_IF_TRUE")
    [] n.t = "AndEqual"   -> OrAndEqual(n, "JUMP_IF_FALSE")
    [] n.t = "AugmentedAssignment" -> AugmentedAssignment(n)
    [] n.t = "Assignment" -> Receiver(n.target) \o <<N(n.value)>> \o StoreTarget(n.target)
    [] n.t = "MultiAssignment" -> <<N(n.value)>> \o StoreAll(n.targets)
    [] n.t = "Send"       -> Call(n, N(n.recv), n.name, BlockOfCall(n), "SEND", "SEND_BLOCK", "SEND_SPLAT", "SEND_BLOCK_SPLAT")
    [] n.t = "Super"      -> Call(n, O("LOAD_SELF"), Super(c), IF n.blk.t = "none" THEN <<O("LOAD_BLOCK")>> ELSE <<N(n.blk)>>,
                                  "", "SEND_SUPER_BLOCK", "", "SEND_SUPER_BLOCK_SPLAT")
    [] n.t = "Subscript"  -> <<N(SendNode(n.recv, "[]", n.args, None))>>
    [] n.t = "Yield"      -> Arguments(n.args) \o <<O1(IF IsSplat(n.args) THEN "YIELD_SPLAT" ELSE "YIELD", Len(n.args))>>
    [] n.t = "Splat"      -> <<N(n.expr), O1("COERCE_ARRAY", 1)>>
    [] n.t = "Array"      -> ArrayParts(n.items, 0, 0)
    [] n.t = "BlockArgument" -> <<N(n.expr), O("COERCE_BLOCK")>>
    [] n.t = "Lambda"     -> <<N(n.block), O("BUILD_LAMBDA")>>
    [] n.t = "SendBlock"  -> <<<<"block", n>>>>
    [] n.t \in {"Function", "Class", "SingletonClass", "Module"} -> DefinitionCode(n)
    [] n.t = "Alias"      -> <<N(SendNode(Node("Scope"), "alias_method", <<n.new, n.old>>, None))>>
    [] n.t = "Undef"      -> <<N(SendNode(Node("Scope"), "undef_method", n.names, None))>>
    [] n.t = "Defined"    -> Defined(n.expr, c)
    [] n.t = "Is"         -> <<N(n.lhs), O("DUP_LAST_CVAR"), N(n.rhs), O("DUP_LAST_CVAR"), O("IS_Q")>>
    [] n.t = "Hash"       -> <<O("BUILD_HASH")>> \o FlattenSeq([i \in 1..Len(n.pairs) |->
                               <<O("DUP_TOP"), N(n.pairs[i][1]), N(n.pairs[i][2]), O2("SEND", "[]=", 2), O("DISCARD_TOP")>>])
    [] n.t = "Range"      -> <<N(n.from), N(n.to), O(IF n.exclusive THEN "BUILD_RANGE_EXCLUSIVE" ELSE "BUILD_RANGE")>>
    [] n.t = "DynamicString"  -> DynamicString(n)
    [] n.t = "ConstantString" -> String(n.strvalue)
    [] n.t = "ConstantSymbol" -> <<O1("LOAD_CONST", <<"sym", n.name>>)>>
    [] n.t = "Symbol"     -> <<N(SendNode(n.value, "to_sym", <<>>, None))>>
    [] n.t \in {"Constant", "LookupConstant", "Variable", "ivar", "cvar", "gvar"} -> Receiver(n) \o LoadTarget(n)
    [] n.t = "Self"       -> <<O("LOAD_SELF")>>
    [] n.t = "Scope"      -> <<O("LOAD_SCOPE")>>
    [] n.t = "File"       -> <<O("LOAD_CODE"), O2("SEND", "filepath", 0)>>
    [] n.t = "Nil"        -> <<O1("LOAD_CONST", <<"nil">>)>>
    [] n.t = "value"      -> <<O1("LOAD_CONST", n.value)>>

-----------------------------------------------------------------------------
(* The context: the code so far, where labels and blocks are, the loops it  *)
(* stands in, the symbol table and its numbers, the code objects made.      *)

Context(kind, name, cells, nums, codes) ==
  [kind |-> kind, name |-> name, cells |-> cells, nums |-> nums, codes |-> codes,
   code |-> <<>>, heights |-> <<0>>, labels |-> <<>>, loops |-> <<>>, uid |-> 0]

(* get_cell_num.                                                            *)
Numbered(nums, name) == IF name \in DOMAIN nums THEN nums ELSE (name :> Cardinality(DOMAIN nums) + 1) @@ nums
NumberedAll(nums, names) == FoldLeft(Numbered, nums, names)

(* BYTECODE_STACK_EFFECT and _instr_stack_effect.                           *)
Loads == {"LOAD_SELF", "LOAD_SCOPE", "LOAD_BLOCK", "LOAD_CODE", "LOAD_CONST", "LOAD_DEREF", "LOAD_CLOSURE", "LOAD_LOCAL_CONSTANT", "LOAD_GLOBAL"}
UpLoads == Loads
Up   == Loads \union {"BUILD_HASH", "DEFINED_GLOBAL", "DEFINED_YIELD", "DUP_TOP", "DUP_LAST_CVAR"}
Down == {"STORE_INSTANCE_VAR", "STORE_CLASS_VAR", "BUILD_RANGE", "BUILD_RANGE_EXCLUSIVE", "BUILD_FUNCTION", "BUILD_MODULE",
         "EVALUATE_MODULE", "JUMP_IF_TRUE", "JUMP_IF_FALSE", "JUMP_AND", "JUMP_OR", "DISCARD_TOP", "RETURN", "RAISE_RETURN",
         "CONTINUE_LOOP", "BREAK_LOOP", "RAISE_BREAK"}
Sending == {"SEND", "SEND_BLOCK", "SEND_SPLAT", "SEND_BLOCK_SPLAT", "SEND_SUPER_BLOCK", "SEND_SUPER_BLOCK_SPLAT"}
StackEffect(ins) ==
  CASE ins[1] \in Up   -> 1
    [] ins[1] \in Down -> -1
    [] ins[1] = "DUP_TWO" -> 2
    [] ins[1] \in {"BUILD_CLASS", "DEFINE_FUNCTION", "ATTACH_FUNCTION", "END_FINALLY"} -> -2
    [] ins[1] = "IS_Q" -> -3
    [] ins[1] \in {"BUILD_ARRAY", "BUILD_ARRAY_SPLAT", "BUILD_STRING", "YIELD"} -> 1 - ins[2]
    [] ins[1] = "BUILD_BLOCK" -> -ins[2]
    [] ins[1] \in {"UNPACK_SEQUENCE", "UNPACK_SEQUENCE_SPLAT"} -> ins[2] - 1
    [] ins[1] \in Sending -> -ins[3]
    [] OTHER -> 0

(* The heights are those the effects add up to in the order of emission.    *)
Emit(c, op, a, b) ==
  LET ins == <<op, a, b>> IN [c EXCEPT !.code = Append(@, ins), !.heights = Append(@, Last(@) + StackEffect(ins))]
EmitDeref(c, op, name) ==
  LET nums == Numbered(c.nums, name) IN [Emit(c, op, nums[name], 0) EXCEPT !.nums = nums]

(* Instruction.patch_loc.                                                   *)
Jumps == {"SETUP_LOOP", "SETUP_EXCEPT", "SETUP_FINALLY", "JUMP", "JUMP_IF_TRUE", "JUMP_IF_FALSE", "JUMP_AND", "JUMP_OR", "CONTINUE_LOOP"}
Patched(c) == [i \in 1..Len(c.code) |-> IF c.code[i][1] \in Jumps THEN [c.code[i] EXCEPT ![2] = c.labels[@]] ELSE c.code[i]]

(* _count_stackdepth of the block at b: along every path of blocks, s holds  *)
(* the depth each was entered with and the deepest stack.  The handler of   *)
(* an exception starts with three values more.                              *)
RECURSIVE CountDepth(_, _, _, _, _)
CountDepth(g, b, depth, s, marked) ==
  LET last  == Min({l \in g.leaders : l > b} \union {Len(g.code) + 1}) - 1
      At(p) == depth + g.heights[p + 1] - g.heights[b] + IF g.code[p][1] \in {"SETUP_FINALLY", "SETUP_EXCEPT"} THEN 3 ELSE 0
      jumps == SelectSeq([i \in 1..(last - b + 1) |-> b + i - 1], LAMBDA p: g.code[p][1] \in Jumps)
      edges == [i \in 1..Len(jumps) |-> <<g.code[jumps[i]][2], At(jumps[i])>>]
               \o IF last = Len(g.code) THEN <<>> ELSE <<<<last + 1, depth + g.heights[last + 1] - g.heights[b]>>>>
      here  == [s EXCEPT !.initial[b] = depth, !.max = Max({@} \union {At(p) : p \in b..last})]
  IN IF b \in marked \/ s.initial[b] >= depth THEN s
     ELSE FoldLeft(LAMBDA r, edge: CountDepth(g, edge[1], edge[2], r, marked \union {b}), here, edges)
Depth(c, code, leaders) ==
  CountDepth([code |-> code, heights |-> c.heights, leaders |-> leaders], 1, 0, [initial |-> [i \in leaders |-> -1], max |-> 0], {}).max

(* create_bytecode: every cell gets a number; the names in the order of     *)
(* their numbers are the cell variables and the free variables.             *)
NamesInOrder(nums) == [i \in 1..Cardinality(DOMAIN nums) |-> CHOOSE n \in DOMAIN nums : nums[n] = i]
Bytecode(c, args, splat, blockarg, defaults) ==
  LET nums  == NumberedAll(c.nums, InAnyOrder(DOMAIN c.cells))
      names == NamesInOrder(nums)
      cellvars == SelectSeq(names, LAMBDA n: c.cells[n] = "cell")
      Pos(n) == IF n = "" THEN 0 ELSE CHOOSE i \in 1..Len(cellvars) : cellvars[i] = n
      code  == Patched(c)
      leaders == {1} \union {c.labels[l] : l \in DOMAIN c.labels}
      ownDepth == Depth(c, code, leaders)
  IN [nums |-> nums,
      code |-> [code |-> code, kind |-> c.kind, cellvars |-> cellvars, freevars |-> SelectSeq(names, LAMBDA n: c.cells[n] = "free"),
                args |-> [i \in 1..Len(args) |-> Pos(args[i].name)], splat |-> Pos(splat), blockarg |-> Pos(blockarg),
                defaults |-> defaults, names |-> names,
                depth |-> Max({ownDepth} \union {c.codes[defaults[i]].depth : i \in 1..Len(defaults)})]]

RECURSIVE Compile(_, _), EmitAll(_, _, _)

(* A default value is a code object of its own over the same symbol table.  *)
CompileArgument(c, a) ==
  LET n == [c EXCEPT !.nums = Numbered(@, a.name)]
  IN IF a.defl.t = "none" THEN n
     ELSE LET d == Emit(Compile(Context(c.kind, c.name, c.cells, n.nums, c.codes), a.defl), "RETURN", 0, 0)
              b == Bytecode(d, <<>>, "", "", <<>>)
          IN [n EXCEPT !.nums = b.nums, !.codes = Append(d.codes, b.code), !.defaults = Append(@, Len(d.codes) + 1)]

(* The code object of a block, a method or a class body.                    *)
CompileSub(c, n, sub) ==
  LET body == n.t \in {"Class", "SingletonClass", "Module"}
      args == IF body THEN <<>> ELSE n.args
      splat == IF body THEN "" ELSE n.splat
      blockarg == IF body THEN "" ELSE n.blockarg
      withArgs == FoldLeft(CompileArgument, [defaults |-> <<>>] @@ sub, args)
      numbered == [withArgs EXCEPT !.nums = NumberedAll(@, SelectSeq(<<splat, blockarg>>, LAMBDA x: x # ""))]
      shared == IF n.t # "SendBlock" THEN numbered
                ELSE [numbered EXCEPT !.cells = @ @@ [x \in DOMAIN c.cells \ DOMAIN numbered.nums |-> "free"]]
      done == Emit(Compile(shared, n.body), "RETURN", 0, 0)
      b == Bytecode(done, args, splat, blockarg, done.defaults)
  IN [codes |-> Append(done.codes, b.code), code |-> b.code, index |-> Len(done.codes) + 1]

(* SendBlock.compile: the cells of the block are numbered first; the block  *)
(* captures a cell of this scope for each of its free variables, the last   *)
(* first.                                                                   *)
CapturedForward(free) == free
Captured(free) == Reverse(free)
CompileBlock(c, n) ==
  LET own == InAnyOrder({x \in DOMAIN n.cells : n.cells[x] = "cell"})
      s == CompileSub(c, n, Context("block", "block in " \o c.name, n.cells, NumberedAll(<<>>, own), c.codes))
      pushed == Emit([c EXCEPT !.codes = s.codes], "LOAD_CONST", <<"code", s.index>>, 0)
      free == SelectSeq(s.code.names, LAMBDA x: x \in ToSet(s.code.freevars))
      closed == FoldLeft(LAMBDA a, x: EmitDeref(a, "LOAD_CLOSURE", x), pushed, Captured(free))
  IN Emit(closed, "BUILD_BLOCK", Len(free), 0)

CompileBody(c, n) ==
  LET name == CASE n.t = "Function" -> n.name [] n.t = "Class" -> "<class:" \o n.name \o ">"
                [] n.t = "Module" -> "<module:" \o n.name \o ">" [] n.t = "SingletonClass" -> "singletonclass"
      s == CompileSub(c, n, Context(IF n.t = "Function" THEN "def" ELSE "class", name, n.cells, <<>>, c.codes))
  IN Emit([c EXCEPT !.codes = s.codes], "LOAD_CONST", <<"code", s.index>>, 0)

EmitItem(c, item, uid) ==
  CASE item[1] = "emit"  -> Emit(c, item[2], item[3], item[4])
    [] item[1] = "jump"  -> Emit(c, item[2], <<uid, item[3]>>, 0)
    [] item[1] = "label" -> [c EXCEPT !.labels = (<<uid, item[2]>> :> Len(c.code) + 1) @@ @]
    [] item[1] = "node"  -> Compile(c, item[2])
    [] item[1] = "deref" -> EmitDeref(c, item[2], item[3])
    [] item[1] = "loop"  -> [c EXCEPT !.loops = Append(@, <<uid, "loop">>)]
    [] item[1] = "endloop"  -> [c EXCEPT !.loops = Front(@)]
    [] item[1] = "continue" -> Emit(c, "CONTINUE_LOOP", Last(c.loops), 0)
    [] item[1] = "block" -> CompileBlock(c, item[2])
    [] item[1] = "body" -> CompileBody(c, item[2])

(* An instruction's argument has 16 bits: code that needs more is not made. *)
MaxCode == 65536
EmitAll(c, items, uid) ==
  IF Len(c.code) >= MaxCode \/ items = <<>> THEN c ELSE EmitAll(EmitItem(c, Head(items), uid), Tail(items), uid)
Compile(c, n) == EmitAll([c EXCEPT !.uid = @ + 1], Emits(n, c), c.uid + 1)

(* The code objects of a program, the main program the last.                *)
CompileProgram(p) ==
  LET ast == ParseProgram(p)
      c == Emit(Compile(Context("main", "<main>", ast.cells, <<>>, <<>>), ast.body), "RETURN", 0, 0)
  IN Append(c.codes, Bytecode(c, <<>>, "", "", <<>>).code)
=============================================================================
