--------------------------- MODULE MCInterpreter ---------------------------
EXTENDS RubyPrograms, Interpreter

CONSTANT Expected     \* Expected[p][a]: what program p does by the reference, given the answers a

Topaz == INSTANCE Compiler

MCSources == NestPrograms(Doubles) \o NestPrograms(Triples) \o OperandPrograms \o Closures \o Arguments \o Assignments \o Classes \o WaysOut
             \o Mixins \o Constants \o Values \o Throws \o Sums \o Littering
MCLittering == Len(MCSources) - Len(Littering) + 1..Len(MCSources)
MCPrograms == 1..Len(MCSources) - Len(Littering)
(* A sequence with its elements computed once.                              *)
Listed(s) == SubSeq(s, 1, Len(s))
MCCompiled ==
  Listed([p \in 1..Len(MCSources) |->
    LET codes == Topaz!CompileProgram(MCSources[p])
    IN Listed([i \in 1..Len(codes) |-> [codes[i] EXCEPT !.code = Listed(@), !.args = Listed(@), !.names = Listed(@)]])])

MCCode == LET all == MCCompiled IN all

Ruby == INSTANCE RubySemantics

(* What a value is made of: arrays and hashes by their items; which proc it *)
(* is, and which kind of number, does not count.                            *)
RECURSIVE Deep(_, _)
Deep(w, v) ==
  CASE v[1] = "array" -> <<"array", [i \in 1..Len(Items(w, v)) |-> Deep(w, Items(w, v)[i])]>>
    [] v[1] = "hash"  -> <<"hash", [i \in 1..Len(w.hashes[v[2]]) |-> <<Deep(w, w.hashes[v[2]][i][1]), Deep(w, w.hashes[v[2]][i][2])>>]>>
    [] v[1] = "proc"  -> <<"proc">>
    [] IsNumber(v)    -> Num(v[2])
    [] OTHER -> v
Place(w, c) == [kind |-> w.classes[c].kind, super |-> w.classes[c].super, included |-> w.classes[c].included,
                consts |-> DOMAIN w.classes[c].consts, methods |-> {<<n, w.classes[c].methods[n].kind>> : n \in DOMAIN w.classes[c].methods}]
Seen(w) == [log |-> w.log, classes |-> {<<c, Place(w, c)>> : c \in {x \in DOMAIN w.classes : w.classes[x].kind # "singleton"}},
            vars |-> {<<k, Deep(w, w.vars[k])>> : k \in DOMAIN w.vars}]

(* What each program does by the reference, for every course of answers.    *)
Courses == [1..MaxCalls -> {"true", "nil", "raise"}]
MCOutcomes ==
  [p \in Programs |->
    [a \in Courses |->
      LET r == Ruby!RunProgram(MCSources[p], a)
      IN [kind |-> IF r.k = "return" THEN "value" ELSE r.k, value |-> Deep(r.w, r.v), seen |-> Seen(r.w)]]]
MCExpected == LET all == MCOutcomes IN all

(* The variables of the interpreter's world, by owner and name.             *)
InCells(owner, d) == [k \in {<<owner, n>> : n \in DOMAIN d.values} |-> d.values[k[2]].value]
AllVars(w) ==
  InCells(Global, [w.globals EXCEPT !.values = [n \in DOMAIN @ \ DOMAIN ReadonlyGlobals |-> @[n]]])
    @@ FoldSet(LAMBDA c, f: InCells(Class(c), w.classes[c].ivars) @@ f, w.vars, DOMAIN w.classes)

SameOutcome ==
  frames = <<>> =>
    [kind |-> outcome.kind, value |-> Deep(world, outcome.value), seen |-> Seen([world EXCEPT !.vars = AllVars(world)])]
      = Expected[program][[i \in 1..MaxCalls |-> IF i <= Len(world.answers) THEN world.answers[i] ELSE "nil"]]

(* A frame's stack never outgrows what count_stackdepth reserved.  A next,  *)
(* or an error that is rescued, amid operands leaves one of them behind:    *)
(* where a loop does so this holds for the rounds that MaxCalls answers     *)
(* allow, not for any number.                                               *)
StackFits == \A i \in 1..Len(frames) : Len(frames[i].stack) <= Code[program][frames[i].main].depth

(* What was on the stack when a loop, a rescue or an ensure was set up      *)
(* stays there untouched up to and with the step that leaves it, whatever   *)
(* leaves what is inside it and whatever operands are pending there.        *)
Beneath(stack, b) == SubSeq(stack, 1, Min({Len(stack), b.depth - 1}))
OperandsKept ==
  [][\A i \in 1..Min({Len(frames), Len(frames')}) :
       frames[i].interp = frames'[i].interp =>
         \A b \in ToSet(frames[i].blocks) : Beneath(frames[i].stack, b) = Beneath(frames'[i].stack, b)]_frames

(* A cell that frames share is the same variable in all of them.            *)
SharedCells == {<<i, j>> \in (1..Len(frames)) \X (1..8) : j <= Len(frames[i].cells) /\ frames[i].cells[j][1] = "shared"}
CellsByName ==
  \A a, b \in SharedCells :
    frames[a[1]].cells[a[2]] = frames[b[1]].cells[b[2]] =>
      Code[program][frames[a[1]].main].names[a[2]] = Code[program][frames[b[1]].main].names[b[2]]

(* While a version stays, what is found under it stays: the methods and the *)
(* constants of a module, its variables and the globals, or the cells they  *)
(* are in.                                                                  *)
VersionsRenewed ==
  [][LET old == world.classes
         new == world'.classes
         Kept(d, e) == d.version = e.version => Dict!Fixed(d) = Dict!Fixed(e)
     IN  /\ \A c \in DOMAIN old :
              /\ old[c].version = new[c].version => FixedTables(old[c]) = FixedTables(new[c])
              /\ Kept(old[c].cvars, new[c].cvars) /\ Kept(old[c].ivars, new[c].ivars)
         /\ Kept(world.globals, world'.globals)]_world

Terminates == <>(frames = <<>>)
=============================================================================
