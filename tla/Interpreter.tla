----------------------------- MODULE Interpreter -----------------------------
(* The bytecode interpreter (src/topaz/interpreter.py) and its frames       *)
(* (src/topaz/frame.py), one instruction a step.  Python's stack of nested  *)
(* interpreters is the sequence of frames.  An exception of the             *)
(* implementation (RubyError, RaiseReturn, RaiseBreak, Throw, Return) passes *)
(* through handlers and frames within the step that raises it, as it does   *)
(* through Python's except clauses.  No constraint is being constructed.    *)
EXTENDS Classes

CONSTANTS
  Programs,     \* the indices of the programs
  Code,         \* Code[p]: the code objects of program p, its main code the last
  MaxCalls      \* the number of outside calls that choose their answer

VARIABLES
  program,      \* the program that runs
  frames,       \* the frames, the running one last
  world,        \* what is outside the frames
  outcome       \* how the program ended
vars == <<program, frames, world, outcome>>

Running == [kind |-> "running"]

Top     == Last(frames)
CodeOf(f) == Code[program][f.code]
Ins     == CodeOf(Top).code[Top.pc]
Arg0    == Ins[2]
Arg1    == Ins[3]

-----------------------------------------------------------------------------
(* Cells (src/topaz/closure.py).  A local cell lives in its frame; once a   *)
(* block closes over it, it is shared, and keeps an integer unboxed.        *)

Local(v) == <<"local", v>>
Unset    == <<"unset">>
Shared(id) == <<"shared", id>>
Stored(cell, v) ==
  IF cell.type = "IntCell" /\ v[1] = "int" THEN [cell EXCEPT !.int = v[2], !.value = Nil, !.boxed = FALSE]
  ELSE [cell EXCEPT !.value = v, !.boxed = TRUE]
NewCell(v) ==
  IF v[1] = "int" THEN [type |-> "IntCell", int |-> v[2], value |-> Nil, boxed |-> FALSE]
  ELSE [type |-> "ClosureCell", int |-> 0, value |-> v, boxed |-> TRUE]
CellValue(cell) == IF cell.boxed THEN cell.value ELSE Num(cell.int)

GetCell(f, w, i) == IF f.cells[i][1] = "local" THEN f.cells[i][2] ELSE CellValue(w.cells[f.cells[i][2]])
SetCell(f, w, i, v) ==
  IF f.cells[i][1] = "local" THEN [f |-> [f EXCEPT !.cells[i] = Local(v)], w |-> w]
  ELSE [f |-> f, w |-> [w EXCEPT !.cells[f.cells[i][2]] = Stored(@, v)]]
UpgradeToClosure(f, w, i) ==
  IF f.cells[i][1] # "local" THEN [f |-> f, w |-> w]
  ELSE [f |-> [f EXCEPT !.cells[i] = Shared(Len(w.cells) + 1)], w |-> [w EXCEPT !.cells = Append(@, NewCell(f.cells[i][2]))]]

-----------------------------------------------------------------------------
(* Frame blocks and unrolling.                                              *)

(* FrameBlock.__init__ leaves one extra item, cleanupstack keeps it.        *)
FrameBlock(kind, target, f) == [kind |-> kind, target |-> target, depth |-> Len(f.stack) + 1]
Cleaned(f, b) == [f EXCEPT !.stack = SubSeq(@, 1, Min({Len(@), b.depth}))]

(* The unrollers a block of each kind handles (handling_mask).              *)
Handles(b, u) ==
  CASE b.kind = "loop"    -> u.kind \in {"continue", "breakloop"}
    [] b.kind = "except"  -> u.kind = "error"
    [] b.kind = "finally" -> TRUE

(* unrollstack: pop the blocks that do not handle it, cleaning the stack.   *)
RECURSIVE Unrolled(_, _)
Unrolled(f, u) ==
  IF f.blocks = <<>> THEN [f |-> f, found |-> FALSE]
  ELSE LET b == Last(f.blocks)
           popped == [f EXCEPT !.blocks = Front(@)]
       IN IF Handles(b, u) THEN [f |-> popped, found |-> TRUE, block |-> b] ELSE Unrolled(Cleaned(popped, b), u)

(* handle of each kind of block.                                            *)
HandledKeepsBlock(f, b, u) ==
  CASE b.kind = "loop" /\ u.kind = "continue" -> [f EXCEPT !.blocks = Append(@, b), !.pc = u.value]
    [] b.kind = "loop"    -> [Cleaned(f, b) EXCEPT !.stack = Append(@, u.value), !.pc = b.target]
    [] b.kind = "except"  -> [Cleaned(f, b) EXCEPT !.stack = @ \o <<<<"unroller", u>>, u.value>>, !.pc = b.target]
    [] b.kind = "finally" -> [Cleaned(f, b) EXCEPT !.stack = @ \o <<<<"unroller", u>>, Nil>>, !.pc = b.target, !.blocks = Append(@, b)]
HandledEmpties(f, b, u) ==
  CASE b.kind = "loop" /\ u.kind = "continue" -> [f EXCEPT !.blocks = Append(@, b), !.pc = u.value]
    [] b.kind = "loop"    -> [f EXCEPT !.stack = <<u.value>>, !.pc = b.target]
    [] b.kind = "except"  -> [f EXCEPT !.stack = <<<<"unroller", u>>, u.value>>, !.pc = b.target]
    [] b.kind = "finally" -> [f EXCEPT !.stack = <<<<"unroller", u>>, Nil>>, !.pc = b.target]
Handled(f, b, u) ==
  CASE b.kind = "loop" /\ u.kind = "continue" -> [f EXCEPT !.blocks = Append(@, b), !.pc = u.value]
    [] b.kind = "loop"    -> [Cleaned(f, b) EXCEPT !.stack = Append(@, u.value), !.pc = b.target]
    [] b.kind = "except"  -> [Cleaned(f, b) EXCEPT !.stack = @ \o <<<<"unroller", u>>, u.value>>, !.pc = b.target]
    [] b.kind = "finally" -> [Cleaned(f, b) EXCEPT !.stack = @ \o <<<<"unroller", u>>, Nil>>, !.pc = b.target]

Returns(u, f) == u.kind = "return" \/ (u.kind = "raise_return" /\ u.interp = f.interp)

(* An unroller in the running frame: its blocks, then, as the frame ends,   *)
(* interpret, Proc#call if the frame was called through it, and run_instr   *)
(* and the blocks of the caller.  fs are the frames that remain, u what has *)
(* left the last of them.                                                   *)
Unroller(kind, interp, v) == [kind |-> kind, value |-> v, interp |-> interp, tag |-> ""]
Value(v)  == Unroller("value", 0, v)
Raise(c)  == Unroller("error", 0, Exc(c))

(* What the library method that called the frame makes of its end.  Proc#call: *)
(* a lambda is what any return or break ends, a proc turns a break into an   *)
(* error.  Kernel#catch: a throw of its name.  Class#new: the new object.    *)
MethodCall(f, u) ==
  CASE f.via = "lambda" /\ u.kind \in {"raise_return", "raise_break"} -> Value(u.value)
    [] f.via = "proc" /\ u.kind = "raise_break" -> Raise("LocalJumpError")
    [] f.via = "catch" /\ u.kind = "throw" /\ u.tag = f.tag -> Value(u.value)
    [] f.via = "new" /\ u.kind = "value" -> Value(f.self)
    [] OTHER -> u

RECURSIVE Unwind(_, _), Deliver(_, _)
Unwind(fs, u) ==
  LET r == Unrolled(Last(fs), u)
      f == r.f
  IN IF r.found THEN [frames |-> Append(Front(fs), Handled(f, r.block, u)), outcome |-> Running]
     ELSE Deliver(Front(fs), MethodCall(f, IF Returns(u, f) THEN Value(u.value) ELSE u))
Deliver(fs, u) ==
  IF fs = <<>> THEN [frames |-> <<>>, outcome |-> u]
  ELSE IF u.kind = "value" \/ (u.kind = "raise_break" /\ u.interp = Last(fs).interp)
  THEN [frames |-> Append(Front(fs), [Last(fs) EXCEPT !.stack = Append(@, u.value)]), outcome |-> Running]
  ELSE Unwind(fs, u)

-----------------------------------------------------------------------------
(* Frames and arguments.                                                    *)

NewFrame(code, self, scope, block, interp) ==
  LET c == Code[program][code]
  IN [code |-> code, pc |-> 1, stack |-> <<>>, blocks |-> <<>>,
      cells |-> [i \in 1..Len(c.cellvars) |-> Local(Nil)] \o [i \in 1..Len(c.freevars) |-> Unset],
      self |-> self, scope |-> scope, block |-> block, interp |-> interp, parent |-> 0, top |-> 0, via |-> "send", tag |-> "",
      main |-> code, todo |-> <<>>, rest |-> <<>>, blockarg |-> Nil, captured |-> <<>>]

(* handle_args, the end of it: the splat, the block argument; then, for a   *)
(* block, the captured cells (invoke_block).                                *)
Entered(f, w) ==
  LET c == Code[program][f.main]
      rest == IF c.splat = 0 THEN w ELSE NewArray(w, f.rest)
      cells == [i \in 1..Len(f.cells) |->
                  CASE i = c.splat -> Local(LastArray(rest)) [] i = c.blockarg -> Local(f.blockarg)
                    [] i > Len(c.cellvars) -> f.captured[i - Len(c.cellvars)] [] OTHER -> f.cells[i]]
  IN [f |-> [f EXCEPT !.code = f.main, !.pc = 1, !.cells = cells], w |-> rest]

(* handle_args: too few or too many arguments are an error; the defaults    *)
(* that are needed still have to run, each in this frame.                   *)
BadCount(c, n) == n < Len(c.args) - Len(c.defaults) \/ (c.splat = 0 /\ n > Len(c.args))
WithArgs(f, args) ==
  LET c == Code[program][f.main]
      n == Len(args)
      start == n - (Len(c.args) - Len(c.defaults))
      ArgAt(i) == {j \in 1..Min({n, Len(c.args)}) : c.args[j] = i}
  IN [f EXCEPT !.cells = [i \in 1..Len(@) |-> IF ArgAt(i) # {} THEN Local(args[CHOOSE j \in ArgAt(i) : \A k \in ArgAt(i) : k <= j]) ELSE @[i]],
               !.rest = SubSeq(args, Len(c.args) + 1, n),
               !.todo = [i \in 1..(Len(c.args) - n) |-> <<c.defaults[i + start], c.args[i + n]>>]]

(* The next default runs in the frame, or the body does.                    *)
NextDefault(f, w) ==
  IF f.todo = <<>> THEN Entered(f, w) ELSE [f |-> [f EXCEPT !.code = Head(f.todo)[1], !.pc = 1], w |-> w]

(* A call of frame f with arguments: caller is the frame that has popped    *)
(* the operands and stands at the next instruction.                         *)
Become(fs, w, result) ==
  /\ frames' = fs
  /\ world' = w
  /\ outcome' = result
  /\ UNCHANGED program
Throw(caller, w, u) ==
  LET r == Unwind(Append(Front(frames), caller), u) IN Become(r.frames, w, r.outcome)
Give(caller, w, v) == Become(Append(Front(frames), [caller EXCEPT !.stack = Append(@, v)]), w, Running)
Enter(caller, w, f, args) ==
  IF BadCount(Code[program][f.main], Len(args)) THEN Throw(caller, w, Raise("ArgumentError"))
  ELSE LET e == NextDefault(WithArgs(f, args), [w EXCEPT !.interps = @ + 1])
       IN Become(Front(frames) \o <<caller, e.f>>, e.w, Running)

(* handle_block_args: a single array is taken apart, missing arguments are  *)
(* nil, surplus ones are dropped, from the array itself when it is one.     *)
BlockArgs(w, c, args) ==
  LET apart == Len(args) = 1 /\ IsArray(args[1]) /\ Len(c.args) >= 2
      items == IF apart THEN Items(w, args[1]) ELSE args
      full  == Padded(items, Len(c.args) - Len(c.defaults))
      fit   == IF c.splat = 0 THEN SubSeq(full, 1, Min({Len(full), Len(c.args)})) ELSE full
  IN [world |-> IF apart THEN [w EXCEPT !.arrays[args[1][2]] = fit] ELSE w, args |-> fit]

(* invoke_block; a block that has no parameters takes no arguments.         *)
Invoke(caller, w, block, args, blockarg, via, tag) ==
  LET p == w.procs[block[2]]
      c == Code[program][p.code]
      f == [NewFrame(p.code, p.self, p.scope, p.block, w.interps + 1) EXCEPT
              !.parent = p.parent, !.top = p.top, !.via = via, !.tag = tag, !.blockarg = blockarg, !.captured = p.cells]
      plain == c.args = <<>> /\ c.splat = 0 /\ c.blockarg = 0
      given == CASE p.lambda -> [world |-> w, args |-> args] [] plain -> [world |-> w, args |-> <<>>] [] OTHER -> BlockArgs(w, c, args)
  IN Enter(caller, given.world, f, given.args)

(* Kernel#lambda and BUILD_LAMBDA: a copy of the proc.                      *)
AsLambda(w, block) == [w EXCEPT !.procs = Append(@, [w.procs[block[2]] EXCEPT !.lambda = TRUE])]
LastProc(w) == <<"proc", Len(w.procs)>>

(* W_UserFunction.call.                                                     *)
CallFunction(caller, w, m, recv, args, block, via) ==
  Enter(caller, w, [NewFrame(m.code, recv, m.scope, block, w.interps + 1) EXCEPT !.blockarg = block, !.via = via], args)

(* A method of the library.  Kernel#catch and throw: the names that count   *)
(* are those of the calls of catch that have not ended.  Class#new sends    *)
(* initialize.  What there is no method for is sent to method_missing,      *)
(* looked for in class.                                                     *)
Caught(name) == \E i \in 1..Len(frames) : frames[i].via = "catch" /\ frames[i].tag = name
NewObject(w, class) == [w EXCEPT !.objects = @ + 1]
CallLibrary(caller, w, class, recv, name, args, block) ==
  LET r == LibraryMethod(w, recv, name, args)
      missing == FindMethod(w, class, "method_missing")
      created == <<"obj", recv[2], w.objects + 1>>
      init == FindMethod(w, recv[2], "initialize")
  IN CASE recv[1] = "proc" /\ name = "call" ->
            Invoke(caller, w, recv, args, block, IF w.procs[recv[2]].lambda THEN "lambda" ELSE "proc", "")
       [] name = "lambda" -> LET n == AsLambda(w, block) IN Give(caller, n, LastProc(n))
       [] name = "proc"   -> Give(caller, w, block)
       [] name = "catch"  -> Invoke(caller, w, block, <<>>, Nil, "catch", args[1][2])
       [] name = "throw"  -> IF Caught(args[1][2]) THEN Throw(caller, w, [Unroller("throw", 0, Padded(args, 2)[2]) EXCEPT !.tag = args[1][2]])
                             ELSE Throw(caller, w, Raise("ArgumentError"))
       [] name = "new" /\ IsModule(recv) ->
            IF init # Missing THEN CallFunction(caller, NewObject(w, recv[2]), init, created, args, block, "new")
            ELSE IF args # <<>> THEN Throw(caller, NewObject(w, recv[2]), Raise("ArgumentError"))
            ELSE Give(caller, NewObject(w, recv[2]), created)
       [] OTHER ->
            CASE r.kind = "value" -> Give(caller, r.world, r.value)
              [] r.kind = "error" /\ r.value = Exc("NoMethodError") /\ missing.kind = "user" /\ name # "method_missing" ->
                   CallFunction(caller, w, missing, recv, <<Sym(name)>> \o args, block, "send")
              [] OTHER -> Throw(caller, r.world, Unroller("error", 0, r.value))

(* send, send_super, _send_raw; UndefMethod.call.                           *)
SendRaw(caller, w, class, m, recv, name, args, block) ==
  LET missing == FindMethod(w, ClassOf(w, recv), "method_missing")
  IN CASE m.kind = "user"    -> CallFunction(caller, w, m, recv, args, block, "send")
       [] m.kind = "missing" -> CallLibrary(caller, w, class, recv, name, args, block)
       [] m.kind = "undef"   -> IF missing.kind = "user" THEN CallFunction(caller, w, missing, recv, <<Sym(name)>> \o args, block, "send")
                                ELSE Throw(caller, w, Raise("NoMethodError"))
Send(caller, w, recv, name, args, block) ==
  LET class == ClassOf(w, recv) IN SendRaw(caller, w, class, FindMethod(w, class, name), recv, name, args, block)

-----------------------------------------------------------------------------
(* The instructions.  Peek(n): the n-th value from the top; Drop(n): the    *)
(* running frame without the top n, at the next instruction.                *)

Peek(n)  == Top.stack[Len(Top.stack) - n + 1]
TopN(n)  == SubSeq(Top.stack, Len(Top.stack) - n + 1, Len(Top.stack))
Drop(n)  == [Top EXCEPT !.stack = SubSeq(@, 1, Len(@) - n), !.pc = @ + 1]
Op(name) == frames # <<>> /\ Ins[1] = name
Push(f, v) == Give(f, world, v)
Replace(n, values) == Become(Append(Front(frames), [Drop(n) EXCEPT !.stack = @ \o values]), world, Running)
Goto(f, pc) == Become(Append(Front(frames), [f EXCEPT !.pc = pc]), world, Running)

(* The module the running code stands in.                                   *)
Here == IF Top.scope = <<>> THEN "Object" ELSE Last(Top.scope)

(* A constant or class variable that was looked for: its value, or what is  *)
(* done without one.                                                        *)
Loaded(found, without) == IF found # <<>> THEN Push(Drop(1), found[1]) ELSE without
ConstMissing(module) == Send(Drop(1), world, Class(module), "const_missing", <<Sym(Arg0)>>, Nil)

Load ==
  \/ Op("LOAD_SELF")  /\ Push(Drop(0), Top.self)
  \/ Op("LOAD_SCOPE") /\ Push(Drop(0), Class(Here))
  \/ Op("LOAD_BLOCK") /\ Push(Drop(0), Top.block)
  \/ Op("LOAD_CODE")  /\ Push(Drop(0), <<"code", Top.code>>)
  \/ Op("LOAD_CONST") /\ Push(Drop(0), Arg0)
  \/ Op("LOAD_DEREF") /\ Push(Drop(0), GetCell(Top, world, Arg0))
  \/ Op("LOAD_GLOBAL") /\ Push(Drop(0), IF Dict!Has(world.globals, Arg0) THEN Dict!get(world.globals, Arg0) ELSE Nil)
  \/ Op("LOAD_INSTANCE_VAR") /\ Push(Drop(1), FindInstanceVar(world, Peek(1), Arg0))
  \/ Op("LOAD_CLASS_VAR") /\ Loaded(FindClassVar(world, Peek(1)[2], Arg0), Throw(Drop(1), world, Raise("NameError")))
  \/ Op("LOAD_LOCAL_CONSTANT") /\ Loaded(FindLexicalConst(world, Top.scope, Arg0), ConstMissing(Here))
  \/ Op("LOAD_CONSTANT") /\ IF IsModule(Peek(1)) THEN Loaded(FindConst(world, Peek(1)[2], Arg0), ConstMissing(Peek(1)[2]))
                            ELSE Throw(Drop(1), world, Raise("TypeError"))
  \/ Op("LOAD_CLOSURE") /\ LET u == UpgradeToClosure(Drop(0), world, Arg0) IN Give(u.f, u.w, u.f.cells[Arg0])

Store ==
  \/ Op("STORE_DEREF") /\ LET s == SetCell(Drop(0), world, Arg0, Peek(1)) IN Become(Append(Front(frames), s.f), s.w, Running)
  \/ Op("STORE_GLOBAL") /\ IF Dict!IsReadonly(world.globals, Arg0) THEN Throw(Drop(0), world, Raise("NameError"))
                             ELSE Become(Append(Front(frames), Drop(0)), [world EXCEPT !.globals = Dict!set(@, Arg0, Peek(1))], Running)
  \/ Op("STORE_INSTANCE_VAR") /\ Give(Drop(2), SetInstanceVar(world, Peek(2), Arg0, Peek(1)), Peek(1))
  \/ Op("STORE_CLASS_VAR") /\ Give(Drop(2), SetClassVar(world, Peek(2)[2], Arg0, Peek(1)), Peek(1))
  \/ Op("STORE_CONSTANT")  /\ Give(Drop(2), SetConst(world, Peek(2)[2], Arg0, Peek(1)), Peek(1))

(* defined?: the kind of the phrase, or nil.                                *)
Described(n, text, is) == Push(Drop(n), IF is THEN Str(text) ELSE Nil)
Describe ==
  \/ Op("DEFINED_GLOBAL") /\ Described(0, "global-variable", Dict!Has(world.globals, Arg0))
  \/ Op("DEFINED_INSTANCE_VAR") /\ Described(1, "instance-variable", HasInstanceVar(world, Peek(1), Arg0))
  \/ Op("DEFINED_CLASS_VAR") /\ Described(1, "class variable", FindClassVar(world, Peek(1)[2], Arg0) # <<>>)
  \/ Op("DEFINED_CONSTANT") /\ Described(1, "constant", FindConst(world, Peek(1)[2], Arg0) # <<>>)
  \/ Op("DEFINED_LOCAL_CONSTANT") /\ Described(1, "constant", FindLexicalConst(world, Top.scope, Arg0) # <<>>)
  \/ Op("DEFINED_METHOD") /\ Described(1, "method", FindMethod(world, ClassOf(world, Peek(1)), Arg0) # Missing)
  \/ Op("DEFINED_SUPER") /\ Described(1, "super", FindMethodSuper(world, ClassOf(world, Peek(1)), Arg0) # Missing)
  \/ Op("DEFINED_YIELD") /\ Described(0, "yield", Top.block # Nil)

StackOps ==
  \/ Op("DISCARD_TOP") /\ Replace(1, <<>>)
  \/ Op("DUP_TOP")     /\ Replace(0, <<Peek(1)>>)
  \/ Op("DUP_TWO")     /\ Replace(0, TopN(2))
  \/ Op("DUP_LAST_CVAR") /\ Replace(0, <<Nil>>)
  \/ Op("IS_Q")        /\ Replace(4, <<Bool(Peek(2) = Peek(4))>>)
  \/ Op("ROT_TWO")     /\ Replace(2, <<Peek(1), Peek(2)>>)
  \/ Op("ROT_THREE")   /\ Replace(3, <<Peek(1), Peek(3), Peek(2)>>)

Spread(arrays) == FlattenSeq([i \in 1..Len(arrays) |-> Items(world, arrays[i])])

(* UNPACK_SEQUENCE_SPLAT: the targets before the splat, the splat, those    *)
(* after it, the first on top; the array itself is padded.                  *)
Unpacked(items, targets, before) ==
  LET after == targets - before - 1
      splat == Max({Len(items) - before - after, 0})
      all   == Padded(items, before + splat + after)
  IN [all |-> all, rest |-> SubSeq(all, before + 1, before + splat), before |-> SubSeq(all, 1, before),
      after |-> SubSeq(all, before + splat + 1, before + splat + after)]

Literals ==
  \/ Op("COERCE_STRING") /\ Replace(1, <<Str(Peek(1)[2])>>)
  \/ Op("BUILD_STRING")  /\ Replace(Arg0, <<Str(FoldLeft(LAMBDA s, v: s \o v[2], "", TopN(Arg0)))>>)
  \/ Op("BUILD_HASH")    /\ LET w == NewHash(world) IN Give(Drop(0), w, LastHash(w))
  \/ Op("BUILD_RANGE")   /\ Replace(2, <<<<"range", Peek(2), Peek(1), False>>>>)
  \/ Op("BUILD_RANGE_EXCLUSIVE") /\ Replace(2, <<<<"range", Peek(2), Peek(1), True>>>>)

Arrays ==
  \/ Op("BUILD_ARRAY") /\ LET w == NewArray(world, TopN(Arg0)) IN Give(Drop(Arg0), w, LastArray(w))
  \/ Op("BUILD_ARRAY_SPLAT") /\ LET w == NewArray(world, Spread(TopN(Arg0))) IN Give(Drop(Arg0), w, LastArray(w))
  \/ Op("COERCE_ARRAY") /\ LET c == Coerced(world, Peek(1), Arg0 = 1) IN Give(Drop(1), c.world, c.value)
  \/ Op("UNPACK_SEQUENCE") /\ Replace(1, [i \in 1..Arg0 |-> Padded(Items(world, Peek(1)), Arg0)[Arg0 - i + 1]])
  \/ Op("UNPACK_SEQUENCE_SPLAT") /\
       LET u == Unpacked(Items(world, Peek(1)), Arg0, Arg1)
           w == NewArray([world EXCEPT !.arrays[Peek(1)[2]] = u.all], u.rest)
       IN Become(Append(Front(frames), [Drop(1) EXCEPT !.stack = @ \o Reverse(u.after) \o <<LastArray(w)>> \o Reverse(u.before)]),
                 w, Running)
  \/ Op("BEGIN_MULTI_ASSIGNMENT") /\ Replace(0, <<>>)
  \/ Op("END_MULTI_ASSIGNMENT")   /\ Replace(0, <<>>)

(* BUILD_CLASS, BUILD_MODULE: the module of that name, if there is one and  *)
(* it is what the text says, or a new one.                                  *)
BuildClass(scope, name, super) ==
  LET known == FindIncludedConst(world, scope, name)
      above == IF super = Nil THEN Class("Object") ELSE super
      id == NameIn(scope, name)
      Refused == Throw(Drop(3), world, Raise("TypeError"))
  IN IF known = <<>>
     THEN IF ~IsModule(above) \/ world.classes[above[2]].kind # "class" THEN Refused
          ELSE Give(Drop(3), SetConst(NewClass(world, id, above[2]), scope, name, Class(id)), Class(id))
     ELSE IF ~IsModule(known[1]) \/ IsPlainModule(world, known[1])
             \/ (super # Nil /\ Class(world.classes[known[1][2]].super) # super) THEN Refused
          ELSE Push(Drop(3), known[1])
BuildModule(scope, name) ==
  LET known == FindIncludedConst(world, scope, name)
      id == NameIn(scope, name)
  IN IF known = <<>> THEN Give(Drop(2), SetConst(NewModule(world, id), scope, name, Class(id)), Class(id))
     ELSE IF IsPlainModule(world, known[1]) THEN Push(Drop(2), known[1]) ELSE Throw(Drop(2), world, Raise("TypeError"))

NoSingleton(v) == v[1] \in {"sym", "int"}
Modules ==
  \/ Op("BUILD_CLASS") /\ IF IsModule(Peek(3)) THEN BuildClass(Peek(3)[2], Peek(2)[2], Peek(1)) ELSE Throw(Drop(3), world, Raise("TypeError"))
  \/ Op("BUILD_MODULE") /\ IF IsModule(Peek(2)) THEN BuildModule(Peek(2)[2], Peek(1)[2]) ELSE Throw(Drop(2), world, Raise("TypeError"))
  \/ Op("LOAD_SINGLETON_CLASS") /\ IF NoSingleton(Peek(1)) THEN Throw(Drop(1), world, Raise("TypeError"))
                                   ELSE LET s == GetSingletonClass(world, Peek(1)) IN Give(Drop(1), s.world, Class(s.class))
  \/ Op("EVALUATE_MODULE") /\
       Enter(Drop(2), world,
             NewFrame(Peek(1)[2], Peek(2), Append(Top.scope, Peek(2)[2]), Top.block, world.interps + 1), <<>>)
  \/ Op("BUILD_FUNCTION") /\ Replace(2, <<<<"function", [kind |-> "user", code |-> Peek(1)[2], scope |-> Top.scope]>>>>)
  \/ Op("DEFINE_FUNCTION") /\ Give(Drop(3), DefineMethod(world, Peek(3)[2], Peek(2)[2], Peek(1)[2]), Nil)
  \/ Op("ATTACH_FUNCTION") /\ IF NoSingleton(Peek(3)) THEN Throw(Drop(3), world, Raise("TypeError"))
                              ELSE LET s == GetSingletonClass(world, Peek(3))
                                   IN Give(Drop(3), DefineMethod(s.world, s.class, Peek(2)[2], Peek(1)[2]), Nil)

(* Blocks and lambdas.                                                      *)
Definitions ==
  \/ Op("BUILD_BLOCK") /\
       LET p == [code |-> Peek(Arg0 + 1)[2], self |-> Top.self, scope |-> Top.scope, cells |-> Reverse(TopN(Arg0)),
                 block |-> Top.block, parent |-> Top.interp, top |-> IF Top.top = 0 THEN Top.interp ELSE Top.top, lambda |-> FALSE]
           w == [world EXCEPT !.procs = Append(@, p)]
       IN Give(Drop(Arg0 + 1), w, LastProc(w))
  \/ Op("BUILD_LAMBDA") /\ LET w == AsLambda(world, Peek(1)) IN Give(Drop(1), w, LastProc(w))
  \/ Op("COERCE_BLOCK") /\ IF Peek(1) = Nil \/ Peek(1)[1] = "proc" THEN Replace(0, <<>>)
                           ELSE Throw(Drop(1), world, Raise("TypeError"))

(* Sends and yields.  The answer of an outside call is chosen as it is made. *)
IsOutside == Ins[1] = "SEND" /\ Arg0 = "c"
BlockOfSend == IF Peek(1) = Nil THEN Nil ELSE Peek(1)
Sends ==
  \/ /\ Op("SEND") /\ IsOutside
     /\ \E a \in IF Len(world.answers) < MaxCalls THEN {"true", "nil", "raise"} ELSE {"nil"} :
          Send(Drop(Arg1 + 1), [world EXCEPT !.answers = Append(@, a)], Peek(Arg1 + 1), Arg0, TopN(Arg1), Nil)
  \/ Op("SEND") /\ ~IsOutside /\ Send(Drop(Arg1 + 1), world, Peek(Arg1 + 1), Arg0, TopN(Arg1), Nil)
  \/ Op("SEND_BLOCK") /\ Send(Drop(Arg1 + 1), world, Peek(Arg1 + 1), Arg0, Front(TopN(Arg1)), BlockOfSend)
  \/ Op("SEND_SPLAT") /\ Send(Drop(Arg1 + 1), world, Peek(Arg1 + 1), Arg0, Spread(TopN(Arg1)), Nil)
  \/ Op("SEND_BLOCK_SPLAT") /\ Send(Drop(Arg1 + 1), world, Peek(Arg1 + 1), Arg0, Spread(Front(TopN(Arg1))), BlockOfSend)

(* send_super: the method above the module the code stands in.              *)
SendSuper(args) ==
  SendRaw(Drop(Arg1 + 1), world, Here, FindMethodSuper(world, Here, Arg0), Peek(Arg1 + 1), Arg0, args, BlockOfSend)
Supers ==
  \/ Op("SEND_SUPER_BLOCK")       /\ SendSuper(Front(TopN(Arg1)))
  \/ Op("SEND_SUPER_BLOCK_SPLAT") /\ SendSuper(Spread(Front(TopN(Arg1))))

YieldTo(n, args) ==
  IF Top.block = Nil THEN Throw(Drop(0), world, Raise("LocalJumpError"))
  ELSE Invoke(Drop(n), world, Top.block, args, Nil, "yield", "")
Yields ==
  \/ Op("YIELD")       /\ YieldTo(Arg0, TopN(Arg0))
  \/ Op("YIELD_SPLAT") /\ YieldTo(Arg0, Spread(TopN(Arg0)))

(* Jumps and the blocks of a frame.                                         *)
JumpsTo ==
  \/ Op("JUMP") /\ Goto(Top, Arg0)
  \/ (Op("JUMP_IF_TRUE") \/ Op("JUMP_OR"))   /\ IF IsTrue(Peek(1)) THEN Goto(Drop(1), Arg0) ELSE Replace(1, <<>>)
  \/ (Op("JUMP_IF_FALSE") \/ Op("JUMP_AND")) /\ IF IsTrue(Peek(1)) THEN Replace(1, <<>>) ELSE Goto(Drop(1), Arg0)
  \/ (Op("JUMP_AND_END") \/ Op("JUMP_OR_END")) /\ Replace(0, <<>>)

Setup(kind) == Become(Append(Front(frames), [Drop(0) EXCEPT !.blocks = Append(@, FrameBlock(kind, Arg0, Top))]), world, Running)
PopBlock ==
  LET b == Last(Top.blocks)
      f == Cleaned([Drop(0) EXCEPT !.blocks = Front(@)], b)
  IN IF b.kind = "finally" THEN Push(f, Nil) ELSE Become(Append(Front(frames), f), world, Running)
Blocks ==
  \/ Op("SETUP_LOOP")    /\ Setup("loop")
  \/ Op("SETUP_EXCEPT")  /\ Setup("except")
  \/ Op("SETUP_FINALLY") /\ Setup("finally")
  \/ Op("POP_BLOCK")     /\ PopBlock
  \/ Op("END_FINALLY")   /\ IF Peek(2)[1] = "unroller" THEN Throw(Drop(2), world, Peek(2)[2]) ELSE Replace(2, <<>>)

(* The ways out.  The value a default returns becomes the argument.         *)
InDefault == Top.code # Top.main
DefaultDone ==
  LET s == SetCell(Drop(1), world, Head(Top.todo)[2], Peek(1))
      e == NextDefault([s.f EXCEPT !.todo = Tail(@)], s.w)
  IN Become(Append(Front(frames), e.f), e.w, Running)
IsFinished(interp) == \A i \in 1..Len(frames) : frames[i].interp # interp
Leaves ==
  \/ Op("RETURN") /\ InDefault /\ DefaultDone
  \/ Op("RETURN") /\ ~InDefault /\ Throw(Drop(1), world, Unroller("return", 0, Peek(1)))
  \/ Op("RAISE_RETURN")  /\ Throw(Drop(1), world, Unroller("raise_return", Top.top, Peek(1)))
  \/ Op("CONTINUE_LOOP") /\ Throw(Drop(1), world, Unroller("continue", 0, Arg0))
  \/ Op("BREAK_LOOP")    /\ Throw(Drop(1), world, Unroller("breakloop", 0, Peek(1)))
  \/ Op("RAISE_BREAK")   /\ IF IsFinished(Top.parent) THEN Throw(Drop(0), world, Raise("LocalJumpError"))
                            ELSE Throw(Drop(1), world, Unroller("raise_break", Top.parent, Peek(1)))

(* A program that has ended rests.                                          *)
Ended == frames = <<>> /\ UNCHANGED vars

MainFrame(p) ==
  [code |-> Len(Code[p]), pc |-> 1, stack |-> <<>>, blocks |-> <<>>,
   cells |-> [i \in 1..Len(Last(Code[p]).cellvars) |-> Local(Nil)],
   self |-> MainObject, scope |-> <<>>, block |-> Nil, interp |-> 1, parent |-> 0, top |-> 0, via |-> "send", tag |-> "",
   main |-> Len(Code[p]), todo |-> <<>>, rest |-> <<>>, blockarg |-> Nil, captured |-> <<>>]

(* The world at the start: the classes with their tables, the globals.      *)
Globals == FoldSet(LAMBDA n, d: Dict!define_virtual(d, n, ReadonlyGlobals[n]), Dict!newdict, DOMAIN ReadonlyGlobals)
StartingWorld ==
  [EmptyWorld EXCEPT !.interps = 1, !.classes = [c \in DOMAIN @ |-> ModuleObject(@[c])]] @@ [globals |-> Globals]

Init ==
  /\ program \in Programs
  /\ frames = <<MainFrame(program)>>
  /\ world = StartingWorld
  /\ outcome = Running

Step == Load \/ Store \/ Describe \/ StackOps \/ Literals \/ Arrays \/ Modules \/ Definitions \/ Sends \/ Supers \/ Yields \/ JumpsTo \/ Blocks \/ Leaves
Next == Step \/ Ended
Spec == Init /\ [][Next]_vars /\ WF_vars(Step)
=============================================================================
