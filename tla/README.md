# TLA+ models of Babelsberg/R

Babelsberg/R is Topaz, a Ruby virtual machine written in RPython, with object
constraints: a program states relations in `always { ... }` blocks and the VM
keeps them by means of solvers (Z3, Cassowary, DeltaBlue, an array solver).
This directory holds TLA+ models of the parts of the VM that are hard to get
right and hard to test (the constraints, and below them the path from a program's
text to its end: parser, compiler, interpreter, classes, and the objects a
program computes with), the TLC configurations that check them, and TLAPS proofs
about five of them: constrained variables, identity constraints, fibers, the
storage of instance variables and hashes.
`PROJECT.json` lists components, runs, the source lines each definition stands
for, mutants, findings, hazards and theorems.

Everything here is about one operating-system thread running one Ruby thread.
Nothing is preempted. What is hard instead:

* long chains of calls between variables, constraints and solvers, in which any
  solver call may raise, with no `try` around the chain;
* callbacks: a value that changes runs blocks again, which change values;
* state kept twice (in the object, in one or several solvers, in caches), which
  has to agree whenever the program runs;
* programs that change what is being gone over: a hash or an array under `each`,
  a class under a call, a key inside a hash;
* fibers, which do interleave, over one-shot handles and state that is global to
  the VM;
* stacks of modes and pending assignments that an exception or a fiber switch
  leaves behind.

## 1. Inventory

Status: **M** modelled, **P** partly, **–** not modelled (with the reason in
section 8). Paths are below `src/topaz` unless they start with `lib`.

| Component | State it keeps | Operations | Interacts with | |
|---|---|---|---|---|
| Constrained variables (`constraintinterpreter.py`, `objspace.py`) | solvers met, external (solver) variables, read-only flags, attached blocks | `begin_assign`, `assign`, `end_assign`, `get_i`, `update_downstream_variables`, `make_(not_)assignable`, `recalculate_path` | solvers through adapters; constraint objects through `recalculate` | M |
| Constraint objects (`objects/constraintobject.py`, `lib-topaz/constraint*.rb`) | enabled flag, primitive of the last run, assigned strength | `always`, `enable`, `disable`, `strength=`, `recalculate` | run blocks in the constraint interpreter; add and remove primitives | P |
| Identity constraints (same files) | links between variables, the pair of the last run | link, unlink, walk | assignment and recalculation of paths | M |
| Z3 glue (`lib-ruby/libz3.rb`, `objects/z3object.py`) | asserted terms, proposal and pin per pointer, model, cached values | `begin_assign`, `end_assign`, `readonly!`, `writable!`, `solve`, `value` | libz3 | P |
| Cassowary, DeltaBlue, array glue (`lib-ruby/lib*.rb`) | as above | as above | solvers that are empty submodules | – |
| Constraint expressions (`constraintinterpreter.py` 10-113) | junction stack | `JUMP_AND`, `JUMP_OR`, their ends, `IS_Q` | code emitted by `ast.py` | – |
| Execution modes, multiple assignment (`objspace.py` 926-1108) | stacks of modes, of constraints, of open multiple assignments | enter, leave, remember, end | interpreter; fibers share the stacks | P |
| Fibers (`objects/fiberobject.py`) | current fiber, handle, resumer, frame links, one global result | `resume`, `yield`, end, failure | rstacklet; execution context | M |
| Execution context (`executioncontext.py`) | frame chain, recursion guards, catch names | enter, leave, visit | fibers share guards and names | P |
| Enumerators (`lib-topaz/enumerator.rb`) | a fiber, a buffered value | `next`, `peek`, `rewind` | fibers | P |
| Instance variables (`mapdict.py`, `objects/objectobject.py`) | tree of maps, two arrays per object, size estimates per node | read, write, change of type or class, flags, constraint variables, copies | classes; constraint variables | M |
| Constant and global cells (`celldict.py`, `utils/cache.py`) | cells, version tags | set, get, delete | inline caches | M |
| Modules and classes (`objects/moduleobject.py`, `objects/classobject.py`, `module.py`, `gateway.py`) | method tables, included modules, version | include, extend, define, remove, look up | method caches | P |
| Closure cells (`closure.py`) | cell contents | upgrade | constraint interpreter wraps cells | M |
| Interpreter and frames (`interpreter.py`, `frame.py`, procs, methods, bindings) | value stack, block stack, pending unrolling | one bytecode at a time; unrolling | everything | P |
| Compiler (`ast.py`, `astcompiler.py`) | blocks, stack depth, symbol tables | compile | interpreter | P |
| Parser and lexer (`parser.py`, `lexer.py`) | lexer state, nesting, here-documents | tokens | compiler | P |
| Ordered dictionary (`utils/ordereddict.py`) | open-addressing table, entries linked in order | set, get, delete, resize, iterate | `hash` and `eql?` of the program | M |
| Hashes (`objects/hashobject.py`, `lib-topaz/hash.rb`) | a dictionary, an iterator | store, delete, shift, rehash, `each` | blocks of the program | P |
| Arrays, ranges, enumerables (`objects/arrayobject.py`, `lib-topaz/array.rb`, `enumerable.rb`, `range.rb`) | a list | subscripts, splices, methods with a block | blocks of the program, enumerators | P |
| Numbers | – | arithmetic with overflow into bignums | – | P |
| Strings, symbols, encodings, regular expressions | shared or owned characters | – | – | – |
| Pack, marshal, glob | – | encoders and decoders | – | – |
| Exceptions, catch and throw | backtrace | raise, throw | interpreter, catch names | P |
| Kernel, processes, files, IO, FFI, start-up, standard library | operating system | – | – | – |

Correctness, for the components whose behaviour is hard:

* *Constrained variables*: whenever the program runs, all solvers and the object
  agree on a value just read or assigned; an assignment is adopted before its
  equality is withdrawn; nothing proposed is left behind; a solver that does not
  define a variable is pinned to its value and stays pinned; blocks see current
  constants; enabled constraints hold; rescued errors leave flags and solver in
  step, but for a block that raised when it was run again (section 4).
* *Identity constraints*: links are symmetric, owned by an enabled constraint,
  follow the path; assignments reach every linked variable; it all terminates.
* *Fibers*: a value, an error and control go where resume or yield sent them;
  no handle is used twice, lost or left in another fiber's object; the frames
  seen are those of the running chain.
* *Modes and multiple assignment*: balanced over exceptions and fiber switches.
* *Mapdict, ordered dictionary, cells, method lookup*: each implements a plain
  map (values keep their attribute, iteration its order, lookups are current);
  searches agree with each other while keys change and `eql?` deletes.
* *Parser, compiler, interpreter, classes*: a program does what the language says
  of its text: each ensure clause runs once, in order, and the pending exit
  survives it unless the clause itself leaves; names reach their variables,
  arguments their parameters, calls their methods; the operand stack has the
  computed size and is clean whenever a loop starts over.
* *Arrays*: positions of any sign and size name what they should; a method with a
  block hands out, keeps and returns what it promises when the block changes the
  array or does not come back.
* *Enumerators*: each item once and in order, looked at first or not, while the
  array changes in between.

## 2. Modules

| Module | Models | |
|---|---|---|
| `ConstraintStore` | what constraints promise with one solver: values that satisfy the rules in force | abstract |
| `ConstrainedVariables` | the assignment protocol over several solvers, constraint objects, the Z3 adapter | detailed |
| `ConstrainedVariablesStore` | the same with a history variable, and the mapping onto `ConstraintStore` | refinement |
| `ConstrainedVariablesProofs` | types, what solvers know, pins, enabled constraints; what each call leaves pending; constraints are asserted once; who may only read a variable has it pinned | proofs |
| `ModelProofs` | solvers answer what they were told; an assigned value wins; constants are current; enabled constraints hold | proofs |
| `AssignmentProofs` | the stages of an assignment: proposals withdrawn, solvers agree | proofs |
| `StoreProofs` | the protocol implements `ConstraintStore` | proofs |
| `IdentityConstraints` | `is?` links and nested recalculation | detailed |
| `IdentityProofs` | the walk over links, links and their owners, links follow their paths | proofs |
| `Coroutines` | what fibers promise | abstract |
| `Fibers` | resume and yield over one-shot stack handles, and the mapping onto `Coroutines` | detailed |
| `FibersProofs` | inductive invariant, frame links and refinement | proofs |
| `AttributeStore` | what attributes, flags and constraint variables of objects promise | abstract |
| `Mapdict` | the tree of maps, typed slots, growth, copies, and the mapping onto `AttributeStore` | detailed |
| `MapdictProofs` | inductive invariant of paths, slots and estimates, and refinement | proofs |
| `Parser` | what each production makes of its parts: syntax trees, symbol tables | functions |
| `Compiler` | the compile methods: bytecode, cells, stack depth | functions |
| `CellDict` | cells and versions of globals and of modules' variables | functions |
| `Classes` | lookup and change of methods, constants, variables, modules | functions |
| `Numbers` | the methods of `Fixnum` and `Bignum`, with each one's own check for overflow | functions |
| `Interpreter` | frames, cells, blocks, calls and ways out, one bytecode a step | detailed |
| `RubyWorld` | values and built-in methods, for the interpreter and the reference | shared |
| `RubySemantics` | what a program's text means, by evaluation | reference |
| `RubyPrograms` | the programs | inputs |
| `OrderedMap` | what a hash and its iteration promise | abstract |
| `OrderedDict` | the open-addressing dictionary | functions |
| `HashObject` | a hash, one iteration over it, and the mapping onto `OrderedMap` | detailed |
| `HashProofs` | searches end and find; links and counters; refinement of `OrderedMap` | proofs |
| `RubyArrays` | what operations and methods of arrays promise | reference |
| `ArrayObject` | the operations of `W_ArrayObject` | functions |
| `Arrangements`, `Counting`, `Flattening` | generators of arrangements, counting methods, `flatten` | functions |
| `ArrayMethods` | the methods with a block, each with its locals between two calls | functions |
| `Enumerator` | `next`, `peek`, `rewind` | functions |
| `Arrays` | an array, a method going over it by a block or in a fiber | detailed |
| `MC*` | instances for TLC | |

### ConstrainedVariables

A variable of the model is a `ConstrainedVariable` together with the slot in the
object that it wraps (`stored`). `solvers_w`, `external`, `readonly` and
`constraints_w` are the fields of the class; a slot of `solvers_w` may be
`NoSolver`, since asking a variable that is in no solver for its defining solver
appends Python's `None`, as in the code. `asserted`, `proposal`, `pin`, `model`
and `w_value` are the adapter's: the list of asserted terms,
`@proposed_value_constraint`, `@ro_constraint`, the last model and the value
cached in the pointer. `leaked` holds equalities whose handle was overwritten by
a second `begin_assign`.

The code's chains of calls are the sequence `agenda`: a step takes the first
pending call, does what that function does up to its first nested call, and puts
the nested calls in front of the rest. Loops over `external_variables_w` are
calls with an index. A raise drops the whole agenda, as no function of the chain
has a handler; with `"rescue"` among `UserOps` the program then goes on. The
program acts only when the agenda is empty: that is the code's single thread.
`Always`, `Enable`, `Disable`, `SetStrength`, `Read`, `Assign` and `MultiAssign`
are its operations. A block is `Reads(c, m)` and `Holds(c, m)`: what it reads
and whether it holds when the variables have the values `m`. What its solver
does not know enters as a constant, which is the snapshot `env[c]`.

A run of a block may also raise: `Breaks(c, m)` are the places where, given by
the variables it has read by then and those it has met (`BreakOff`). What it read
stays attached. In `recalculate` that comes after the constraint was disabled and
its list of primitives emptied: `env[c]` is then `Emptied`, `enable` has nothing
to go through and only sets the flag (`HasPrimitive`, `EnabledHasPrimitive`).

The loops along a path go over `constraints_w`, in which the places of solvers
without blocks are padded with None. `MeetsNone` says that the loop has come to
such a place; `recalculate_path` iterates over None there, which is no exception
of the Ruby program, so that no action follows: the VM is gone. The invariants
say what holds in the states up to there, `PathsAreLists` that it does not happen.

Abstractions: a block yields one primitive; primitives of one block with equal
constants are counted together; Z3 answers any model of what is asserted, or
raises when there is none, and a solver of `Unsure` also when its check comes to
no answer (`z3object.py:149-151`); the second solver follows the protocol of
`libz3.rb`, since the other solvers are not in the repository. A value that has
`assign_constraint_value` (`constraintinterpreter.py:451-452`) is left out: the
values here are replaced, not changed.

### IdentityConstraints

Variables here are in no solver. `identical` holds the links, `attached` the
blocks to run when a variable changes, `link` the pair a block's last run led
to. Enabling links one direction, stores, ends the assignment (which may
recalculate other blocks) and only then links the other direction and sets the
flag, as in `constrain_identity`. `Walk` is the recursion of
`all_identical_variables` as a recursive function of the variables still to do
and those seen; a list loses the first of equal items (`Removed`), as
`list.remove` does.

### Fibers

A fiber's stack is identified with the fiber. `h` is the handle in the object
(the stack it stands for, or that it is unset, used up or empty), `at` the call
a stack is suspended in with its local variables: `slot`, the object that takes
the handle coming back, `top`, the saved `topframeref`, and `me`, yield's
`current`. `parent_fiber`, `sthread`, `topframeref` and `backref` are the
code's; `origin` is the local variable of the callback. A call up to the landing
on the other stack is one action: nothing of the program runs in between. A
switch on a handle that stands for no stack, and a failing assertion, set
`crashed`.

`UserOps` names what a program does beyond the regular: `"migrate"`, a fiber is
resumed by another fiber than the first time; `"badargs"`, unpacking the block's
arguments raises.

### Mapdict

A node is its class and the path of kinds and names from there: the transition
cache makes one node per such path, so a node needs no identity of its own.
`estimate` has an entry for each node the cache holds. An operation that changes
an object is a function of the object's record (class, path, arrays, all
estimates), and copies fold such functions over the original's path, in the
order of the recursion in the code. Whether code is compiled, where the averages
are left alone, is open at every operation (`jitted`). A slot of the unboxed
array holds the value with its type's bits: read through a node of the other
type it yields `"other bits"`. An access out of bounds, and `remove_attr` on a
flag, set `failed`; `UserOps` without `"retype"` means a program that does not
change the type of an attribute it had set before a flag.

### Parser, Compiler, Interpreter, Classes, CellDict

A program is a tree of phrases, one record for each production of `parser.py`
that it uses, as the LALR tables hand them over. `Parser` gives what the
productions make of it, with the symbol tables that reading declares names in;
`Compiler` gives what each `compile` method of `ast.py` emits, and from it the
basic blocks in order, the places of cells and the stack depth of
`astcompiler.py`. These are functions, evaluated once per program when TLC starts.

`Interpreter` runs the code. Its state is the frames, the running one last, and
the `world` outside them (arrays, hashes, objects, classes, cells, procs). An
action is one bytecode; a Python exception of the implementation (`RubyError`,
`RaiseReturn`, `RaiseBreak`, `Throw`) passes through handlers, block stacks and
frames within the step that raises it, as it does through Python's `except`
clauses. Built-in methods are in `RubyWorld`; those about classes are in
`Classes`, which searches class records as `moduleobject.py` does and renews
their versions; globals and the variables of modules are `CellDict`s.

A program calls `c(k)` for what is outside: the call is logged and answers true,
nil or an exception, as the run chooses at that point (`MaxCalls` of them, then
nil). So each program is checked for every course of the outside.

A word of the machine has `LONG_BIT` bits: 8 in the instance, so that programs
reach both ends of it, and `Numbers` decides method by method what goes on in a
`Bignum`, what wraps (`Intmask`) and what is an error. The reference computes
with TLA+'s integers.

`RubySemantics` is the reference: it evaluates the phrases directly, with scopes
by name, results that are values or ways out, and a lineage of places for method
lookup. It shares `RubyWorld` with the interpreter, so what a built-in method
computes is not checked against anything; how it is reached, with which
arguments and in which order, is.

### OrderedDict, HashObject

A dictionary is a record and each method of `LLOrderedDict` a function of it,
with the probe sequence, the perturbation, tombstones, the resize counter and the
links in order. A key is an object with a content; the program may change the
content of a `Mutable` key at any time (`Mutate`), and an entry keeps the hash it
was stored with. A search is given `calls`, what each call of the `eql?` of a key
does to the hash in turn: leave it alone, or delete, clear, store (`EqlMay`), any
`EqlSteps` times in one operation and several in one call (`Prolonged`). After
each call comes the code's paranoia check, which starts the search again if the
entry compared is gone; an operation takes place only with as many calls as it
makes (`called`). A bound on them there must be: an `eql?` that deletes the entry
and stores it again each time has `ll_lookup` start again for ever
(`ordereddict.py:497`, `524`). What is not in `calls` is an `eql?` that changes
the contents of keys during the search, and one during `rehash`, which stores the
items into new storage (`Merge`); `compare_by_identity` calls none, `merge!` is
`Store` again and again. A read whose `eql?` changes the hash is the step that the
change is. `it` is the iterator of one `each`: an
index, and storage of its own once the hash has been given another one (rehash,
replace). The mapping to `OrderedMap` reads the entries along the links.

### ArrayMethods, Arrays, Enumerator

Each operation of `arrayobject.py` is a function from the items to the items, the
value and whether it raised (`ArrayObject`). A method with a block is cut at the
calls of its block: `Entered`, `Answered`, `Handed` and `Finished` say what it
does up to the next call, with its local variables in `call.l`. In between the
program may change the array (`Nudge`), answer, or not come back (`Break`). The
history (what was handed out, what was answered) is only there for the
properties. `Enumerator` runs such a method in a fiber whose block yields, so that
the program runs in between in full, not within the block.

## 3. Runs

| Run | Instance | Distinct states | Shows |
|---|---|---|---|
| `cv_two` | 2 solvers sharing a variable, 3 blocks; all operations but `enable` | 1,403,033 | agreement, no leftovers, pins exactly where read-only, pins hold, fresh constants |
| `cv_rescue` | 2 solvers, one of them unsure, 2 variables, 3 blocks, one of which joins a variable to the second solver, two that may disagree and may raise; errors rescued; all operations but multiple assignment | 1,406,386 | `Inv`, enabled with a primitive implies asserted, every `end_assign` has its proposal |
| `cv_store` | 1 solver, 3 variables, 3 blocks, one following a path | 1,014,174 | one copy of a primitive iff enabled; answers satisfy what is asserted; assigned values are adopted; enabled constraints hold; refinement of `ConstraintStore` |
| `cv_removed` | as `cv_two` with 2 blocks, errors rescued | | *violated*: a failed assignment leaves its equality |
| `cv_joined` | as `cv_rescue` with 2 blocks; multiple assignment | | *violated*: an `end_assign` without its proposal |
| `identity` | 5 variables, 3 identity constraints, one on a path the others change | 1,151,494 | links symmetric, owned, on the path; an assignment reaches all linked variables and no other; termination |
| `fibers` | main and 3 fibers, 2 values | 1,434 | no crash, handles in place, frame chain, refinement of `Coroutines` |
| `fibers_dead` | the same, fibers that migrate | | *violated*: a dead fiber counts as suspended |
| `mapdict` | 2 objects, 2 attributes, 3 types, a flag; singleton classes, copies | 84,775 | one node per name with enough room estimated, no access fails, refinement of `AttributeStore` |
| `program` | 606 programs, up to 3 answers of the world outside | 104,859 | outcome of the reference semantics, computed stack size, operands beneath a block kept, closures by name, versions renewed, every program ends |
| `hash` | 4 keys with colliding hashes, one mutable; `eql?` deletes or clears, twice in an operation | 41,170 | links and counters right, searches agree, refinement of `OrderedMap` |
| `arrays` | up to 3 items of 2 values; all operations, 41 methods with a block | 167,316 | operations, calls and `next`s do what `RubyArrays` promises; calls end |

Each property of a passing run has a mutant: a definition of the model changed
as a plausible bug would, under which TLC finds the property violated.

Deadlock is not checked where the program may just have nothing left to do (all
blocks declared, no operation that applies) or a bound on the instance stops it
(`MaxNodes`). It is checked in `fibers` (main can always try to yield and be
refused), `hash` and `arrays` (a method can always be called or answered), and in
`program`, where only a program that has ended may stay as it is.

### Bounds, and why they are enough

* Values 0 and 1: a block holds or not, constants are equal or not; the
  interesting cases are conflicts between an assigned, a pinned and a solved
  value, which two values give.
* Three variables: an assigned one, one that is moved by a solver, one on a path
  or local to the second solver. Three blocks: one per solver and one that
  follows a path from one solver's variables into the other. `cv_rescue` has a
  shared variable and one on a path that joins it to its second solver.
* Two solvers: one defines the shared variable, the other reads it; both orders
  of joining are explored. A third solver would repeat the second's role.
* `MaxCopies`: copies of a primitive an adapter may hold after failed enables (1:
  `Enable` is not offered with one left over). It bounds repetition of a step
  and nothing else; what the proofs show of it needs no bound.
* `UserOps` leaves out operations per run; every operation is in some passing
  run. `enable` is left out where constants have to be fresh, as it asserts a
  disabled constraint's last primitive, multiple assignment in `cv_rescue`, where
  it breaks `EndFollowsBegin` (`cv_joined`).
* Five variables and three constraints for identities: a selector, the two cells
  it selects from, and a chain of two links; every constraint can be the cause
  of another's recalculation.
* Three fibers and main: chains of nested resumes of depth three, and a fiber
  that yields while its resumer was itself resumed.
* `MaxNodes`: nodes of the tree at which operations stop. With 4 an attribute is
  taken out from under another attribute or a constraint variable, and an object
  with two attributes is copied. `NUM_DIGITS_POW2` is 2 in the run and 16 in the
  code: half of a difference is added at a time, still with rounding.
* `program`: `RubyPrograms` is a fixed list. It is built from families (each way
  out of a body, as a statement and amid a pending operand, crossed with rescue,
  ensure, blocks and loops around it; scopes
  and captures; every shape of parameters against every shape of arguments;
  changes of classes between two calls of one method; constants, globals, class
  variables) so that every production, compile method and bytecode modelled is
  used in the contexts that treat it differently. `MaxCalls` answers are open per
  program, three of them: enough for a loop to go round, be left and be resumed.
* Two changes by `eql?` in one operation (`EqlSteps`): one makes the search start
  again, one comes after that, or both in one call. The proofs are for any number.
* `hash`: tables of 4 slots (`INIT_SIZE`, 8 in the code) fill, keep tombstones,
  are rebuilt and grow with four keys; the hashes 0 and 16 collide in the first
  probe of a table of every size that occurs. One iteration at a time. While a
  detached iterator (one that walks old storage after rehash or replace) goes on,
  the hash is left alone (`Quiet`): what is done to it can no longer matter to it.
* `arrays`: up to `MaxLen` = 3 items. Positions and lengths go beyond every end,
  in both directions; spans that start past the end are excluded from assignment,
  where the code pads or fails by kind of argument. `MaxNudges` = 2 changes by
  the block in one call; `MaxGiven` bounds a history no call fills. One call and
  one enumerator at a time. Generators of arrangements meet a change only at the
  first arrangement. A call whose array was changed in a way the language leaves
  open is `disturbed` and only promises to end. The operand is never the
  receiver. `flatten` is checked on all heaps of three arrays with up to two items
  each, counting methods from -1 to 2 by 1 or 2.

### Fairness

`IdentityConstraints` and `Interpreter` assume `WF_vars(Step)`, the thread goes
on with a pending call, or with its next bytecode. That is the code's
scheduling: there is no other thread to wait for. `Arrays` assumes `WF` of
`Resume`: a block that was called answers in the end or does not come back, and
an array changes no more than `MaxNudges` times meanwhile; what it shows is that
the method then ends. Nothing is assumed of the program's operations. The other
modules state safety only.

## 4. Findings

| Run | Source | What |
|---|---|---|
| `cv_removed` | `z3object.py:149` | `solve` raising between `begin_assign` and `end_assign` leaves the proposed equality asserted; the API comment says it is removed |
| `cv_joined` | `objspace.py:973` | a multiple assignment ends its variables in turn; the end of one recalculates a path block, which joins the next to a further solver, and that is told to end what it never began (`TypeError` after all was solved) |
| `fibers_dead` | `fiberobject.py:77` | a fiber resumed by another fiber puts the new handle into its old resumer; a dead one then passes the test for dead fibers |

More was found that no run is about. The modules have each of these, as the code
has it, and TLC finds it when the named property is checked instead
of the run's own:

| Property and instance | Source | What |
|---|---|---|
| `EnabledHasPrimitive` in `cv_rescue` | `constraintobject.py:179` | `recalculate` disables, empties the list of primitives and runs the block; when that raises and the program enables the constraint again, it counts as enabled with nothing asserted and no value, which the comment of `value` (lines 258-259) takes for granted |
| `PathsAreLists` in `cv_two` | `constraintinterpreter.py:228` | a variable that is assigned before a solver's block reads it has a None in `constraints_w`, and the loops along a path (410-413, 474-477) iterate over it instead of running the blocks behind it |
| `LenCountsItems` in `hash` with `EqlMay = {"store"}` and `EqlSteps = 1` | `ordereddict.py:538` | a search keeps the free slot it has passed while it calls `eql?`; an `eql?` that stores takes it, and the outer item is written over the other: the length counts both, against `test_len` |
| `StackFits` in `program` with `Programs <- MCLittering` | `interpreter.py:912` | `next` amid an operand, and an error rescued amid one, leave operands on the stack; a loop of such rounds outgrows the room the compiler computed, and push checks no bound (`frame.py:94-97`) |
| `NoFailure` in `mapdict` with `"retype"` | `mapdict.py:207` | an attribute set before `taint` cannot take a value of another type after it, since `FlagNode` has no `remove_attr` |

Section 8 lists what the reference semantics and the code disagree on outside of
the instances.

## 5. Proofs

Every theorem is for any sets of variables, values, blocks, solvers and fibers,
finite or not, unless an assumption below says otherwise. Hypotheses that the
code needs are in the statement of the theorem (`ASSUME ... PROVE`), assumptions
on constants in the module that declares them, where TLC evaluates them on every
instance.

### Constrained variables

Four modules. `ModelProofs` extends `ConstrainedVariablesProofs`, and adds
conjuncts to what is known inductive; the last two extend `ModelProofs`. In all of them any solver call, any
`end_assign` and any run of a block may raise, and any operations are offered,
until a theorem says "until an error". All are about the states up to where a
loop meets a None (`PathsAreLists`, section 4).

1. `ConstrainedVariablesProofs`: `Spec => []Inv`, from it `TypeOK`, `PinHolds`
   and `EnabledIsAsserted`. `PinHolds` is not inductive. That a pinned variable
   shows its pin depends on the model agreeing with it; a solve keeps that because
   the pin is among the asserted equalities; a model may lack the variable, or be
   emptied by a failed check, and then the cached value must be the pin
   (`PinsAgree`). To pin, the code reads a value from a solver that has to know
   the variable (`SlotsKnown`, `ReadonlyKnown`, `SolversKnow`), which for a
   pending call needs that knowledge to be kept while calls in front of it are
   done (`PendingCalls`). That an enabled block is asserted needs that what is
   about to be flagged already is, and that nothing pending in front of it can
   take it away (`EnablingSoon`). A block that raised leaves a constraint
   disabled and without a primitive (`Emptied`), which the invariant allows after
   errors only (`RunBlocks`); `EnabledIsAsserted` is about those that have one.

   Then, in the same module, `AssertedOnce`. First, for every call, which calls it leaves
   pending (`Adds`). Then `OnceInv`: until an error a solver holds the primitive
   of each block that is enabled, or whose flag a pending `set_enabled` is about
   to set, once, and no other; a pending `enable` runs next and finds the flag
   down. Recalculation is disable, run, enable: were another call to come in
   between, it could assert the same block again.

   Then `ReadersArePinned`. A solver that knows a variable without
   defining it has it read-only, and pinned or about to be by a pending
   `make_not_assignable` (`ReaderInv`). This needs that who defines a variable
   stays the same while solvers are appended (`FirstHeaviestStays`) and changes
   only in a join that pins anew, and that an assignment, which unpins, brings
   the calls that pin again: `BeginInv`, a pending `__begin_assign__` is in front
   of all else and the rest of its assignment is behind it.

2. `ModelProofs`: `ModelSatisfies`. Until an error a solver's answers satisfy
   what it holds, or a pending call runs it (`ModelInv`; `Covers` says which
   calls do, among them the rest of a loop that has not come by yet). A proposal
   not yet solved is the case that needs order: `OfferInv`. `AssignedWins` is an
   action property: whenever a proposal is withdrawn, the solver's answer is the
   proposed value. From `WinsInv`: what withdraws a proposal comes after a run of
   its solver in the agenda, or the answer is the proposal already.

   `SnapshotFresh`. A live block was last run with the values
   its constants have, or a pending visit of a variable along its path will run it
   (`SnapInv`; `AttachInv`: a block is attached to what it read, and nothing
   attached moves, so that a loop with an index over a growing list misses
   none). The hypothesis `"enable" \notin UserOps` is needed: `enable` of a
   disabled constraint asserts its last primitive as it is
   (`constraintobject.py:117`), with old constants. Then `EnabledHold`: what
   the block was asserted with is what it would read now, and the solver's
   answers satisfy it. Its hypothesis `NoSharing` (no variable is known to two
   solvers) is the reading the README of the repository is about; with shared
   variables what the program reads comes from the defining solver, and that all
   agree is `Agreement`, for the variable just read or assigned (item 3).

3. `AssignmentProofs`: `NoLeftovers`, `EndFollowsBegin` and `Agreement`. "In
   front of" and "behind" are too coarse for these: the calls of an assignment
   have to be matched one by one. `StageInv` gives the whole agenda for each stage
   an assignment can be in (`Beginning`, `Proposing`, `Getting` with `Offering` and
   `Following` inside, `Assigning`, `Ending`, `Finished`), and with it two sets:
   the solvers that hold a proposal, and those that agree with the slot in the
   object. A loop with an index over a list is at a stage by the slots it has still
   to visit (`OthersLeft`, `SolversLeft`). Who holds a proposal at the start of
   `__end_assign__` must be who it will visit, so no solver may join the variable
   in the middle: a block hangs under its own solver, and one that is recalculated
   on the way is on the path only, its solver does not support the variable
   (`PathInv`). That a second look finds the same defining solver is again
   `FirstHeaviestStays`. After an error proposals of an earlier operation may be
   there, so that only one inclusion holds (`Kept`); it is enough for
   `EndFollowsBegin`, which is about the operations after an error. The
   hypothesis `"multi" \notin UserOps` (one variable is assigned at a time) is
   needed: `cv_joined` shows `EndFollowsBegin` violated without it. Multiple
   assignment is in `cv_two`, which finds `NoLeftovers` and `Agreement` hold there.

4. `StoreProofs`: `SettledSpec => ImplementsStore`, whatever calls an operation
   makes. `ConstrainedVariablesStore` keeps what the program read before an
   operation in a history variable; when no call is pending and nothing was
   raised, the difference to what it reads now has to be a step of
   `ConstraintStore`. `Track` says in between what the pending calls owe to the
   history: the rules in force are those of before, one more at most and none
   more in an assignment (`StepRules`, `StepRaises`); solvers give no variable
   back (`OwnersStay`); a variable that is in no solver changes only if it is
   assigned (`BeginsInFocus`). With `EnabledHold` at the end of the operation
   that is the store's step (`StepsOfStore`). Hypotheses: `NoSharing` and
   `"enable" \notin UserOps`, those of `EnabledHold`.

Assumptions: `ConstantsAssumption` (types), `WeightAssumption` (weights above
-1000, where the search in `defining_solver` starts), `PathAssumption` (which
variables a block reads is settled by what it reads as constants: a variable the
solver knows is an object, and true, while the block runs), `AnswerAssumption`
(whether a block holds is settled by the variables it reads) and
`HeaviestAssumption` (a non-empty set of solvers has a heaviest one, which
finiteness gives).

### IdentityProofs

* `AssignReachesClass`: an assignment stores into exactly the variables that are
  linked to the assigned one, directly or over others, whatever cycles the links
  have. `Walk` is a recursive function, and what a recursive definition computes
  takes induction, whose theorems the provers cannot instantiate. Here a function
  that solves the recursion is given outright, the list at the end of a trail (a
  finite sequence of walks, each `OneFurther` than the one before), so that `Walk`
  unfolds as written (`WalkUnfolds`). That it ends and lists the right variables
  is then shown by a least counterexample: of the walks that do not, one with the
  fewest variables unseen, and of these the fewest to do, would have a smaller one
  next (`WalkReaches`). So each variable is listed once, and the list is the least
  set closed under links (`WalkFindsClass`). This needs finitely many variables
  (`VarsAssumption`).
* `WellFormed`: no block is in the middle of an `enable` twice, since it counts
  as disabled until it is done (`BaseInv`).
* `LinksAreOwned`, `EnabledIsLinked`: `LinkInv` says of the states in between
  that a block which has stored its value has half of its link and an enabled one
  both halves, once in each list, and that no other link is left. Both assume
  `Distinct`, no two blocks link the same two variables: with two such blocks
  `unlink` of one takes the link of both (`constraintinterpreter.py:298`), and
  the properties fail.
* `PathFollowed`: between operations an enabled block links what its path leads
  to now. `FollowInv` says of the states in between that an enabled block was last
  run with values which the variables of its path either still have or are
  going to be visited for: a pending `recalculate_path` comes by the block, or a
  pending `recalculate` is for it (`Followed`, `ToVisit`, `Serves`). Such a visit
  is lost in one case, when it finds the block in the middle of its enabling,
  which counts as disabled. So the invariant also says that what is in
  front of a block's `enable` in the agenda comes from that block's own store
  (`Ordered`, `Fits`, `Stirred`), and that blocks stay attached to what they read.
  Two hypotheses on blocks: `PathsDecide`, the values of the variables a block comes
  through settle what it reads and links; `NoFeedback`, enabling a block stores,
  over others it recalculates, into no path of its own. Without the second the
  property fails: of two blocks that store into each other's paths one can be left
  with the link of where its path led before. The instance of the run satisfies
  both (`PathsAssumption`, which TLC evaluates).

### FibersProofs

For any set of fibers, resumed in any nesting, where each fiber is resumed by
the same one every time and its block takes its arguments (`Regular`):
`Spec => []Inv`, from it `[]NoCrash` and `[]HandleInPlace`,
`Spec => []BacktraceIsChain` and `Spec => ImplementsCoroutines`.

`NoCrash` rests on where handles are. The invariant says: a fiber has a resumer
exactly when that one is suspended in a resume of it, and the resumer is the
`origin` its callback remembers (`Waiting`); a suspended fiber without one has
yielded, with the origin's object in its local variable (`Yielded`); what was
never started or has ended has no stack and holds the handle that says so
(`Stacked`); who runs is current (`Running`). Each of resume, yield and end is
first reduced to its effect on a state of the invariant, then each conjunct is
shown, then the corresponding step of `Coroutines`. `BacktraceIsChain` adds what
`topframeref` and `backref` are for each suspended call. `fibers_dead` shows that
the restriction is needed.

### MapdictProofs

For any objects, names, types, values and flags, any sharing of nodes and any
choice of when averages move:

* `AlwaysSane`: `Spec => []Inv`. Names are at most once in an object's path; each
  node's slot is in its array and holds a value of the node's type; the nodes
  with an estimate are closed under parents, and an estimate is enough for the
  path up to its node. The last is not obvious: averages move by halves, rounded,
  towards the sizes of the objects that pass, and those may be smaller; that
  rounding never takes one below what a map needs is `AverageKeeps`, for any
  number of digits.
* From it `AlwaysWellFormed` (the run's type invariant, and one node per name),
  `AlwaysSuffices`, and `NeverFails`: no access is out of bounds and no
  `remove_attr` meets a node that has none. Its hypothesis
  `"retype" \notin UserOps` is needed, as `FlagNode` has no `remove_attr`
  (`mapdict.py:207`): an attribute set before a flag cannot change its type.
* `StorageImplementsAttributes`: `Spec => ImplementsAttributes`, with every
  operation. What an operation does to the arrays is stated by what the names
  hold afterwards (`Holds`, `Puts`): one name is put or taken out and all others
  keep what they had, also when all nodes above the one taken out are built
  again in other slots. Copies, changes of class and removals are loops over a
  path of any length, in the model folds (`FoldLeft`), which the library defines
  by recursion on sets of indices. `LoopRuns` shows that there is a function
  that solves it, `LoopPasses` that it passes the states the loop goes through,
  both by a least counterexample, as in `IdentityProofs`; `LoopPuts` then says
  what a loop leaves under each name from what one round does.

Assumptions: `MapdictAssumption` (types, `Nil` apart from values and
objects, finitely many flags, so that the loop over them ends) and
`NilAssumption` (`Nil` is no record of an object either, which is what `map` and
the abstract `obj` hold when there is one).

### HashProofs

For any keys, values and hashes, any size that is a power of two, and an `eql?`
that deletes from the hash or clears it in any of its calls, any finite number of
times in one operation. That it does not store, `EqlDeletes`, is a hypothesis of
each theorem; section 4 says what it is needed for. What `eql?` has done by the
n-th call is a fold; `AllTold` says of each of its results that the hash is still
one, and that the program sees items and an iteration which `Compared` of
`OrderedMap` allows.

* `LinksWellFormed`: `Spec => []WellFormed`. The invariant, `DictInv`, says for
  some sequence of slots (`Fits`) that the entries are an array whose length is a
  power of two and whose entries not in use are blank or deleted; that the links
  pass the entries in use, each once and in the order of the sequence (`Chain`);
  that a slot never used is left (`HasRoom`); and that every entry in use is on the
  way of the hash it was stored with (`Placed`: every slot a search for that hash
  comes by before has been used). `HasRoom` is why every search ends, and the
  counter is reduced for slots that were used before as well, so that it has to be
  shown against the slots ever used, not the items.
* `SearchesEnd`: a search ends, whatever `eql?` deletes in its calls, of which as
  many change the hash as `EqlSteps` says. A search that
  went on for ever would come by every slot (`SearchReachesAll`): the hash is
  used up by shifts, and from then on `5 i + 1` modulo a power of two goes round
  all slots. That is shown without counting rounds: a non-empty set of integers
  closed under `5 x + 1` and under adding `n` is everything, for `n = 1` and, if
  for `n`, for `2 n` (`ReachAllDoubles`: two steps from an even number are one step of
  the same form from its half). A search that `eql?` has made start again has
  fewer calls before it that change the hash; of the states of one that never
  ended, those behind the last such call would come by every slot of the
  dictionary as it is then (`SearchStopsOnce`).
* `SearchesAlwaysAgree`: `Spec => []SearchesAgree`. What a search finds follows
  from `Placed`: on its way to a slot never used it comes by the entry of every
  item with the same hash, and takes none but one that is the same or the very
  object (`SearchFits`, with what `eql?` has done to the hash meanwhile). That a
  hash is `==` one with its items merged the other way round needs that items
  stored anew never meet one that is the same (`Fresh`, `MergeFits`).
* `HashImplementsOrderedMap`: `Spec => ImplementsOrderedMap`. Each operation gives
  the items its counterpart in `OrderedMap` gives: `SetitemFits`, `PopFits`,
  `DelFits`, `ClearFits`, and `ResizeFits` for the growth in the middle of a store,
  which moves all entries and changes no item. An operation is two steps for the
  iterator, what `eql?` deletes and what the operation does; `ShownStep` and `LessIs`
  put them together. The invariant `MapInv` adds that the iterator, unless it is
  disturbed, is at some place of the links it walks, those of its own storage once
  the hash has another.

The loops of the dictionary are recursive functions in the model: of the search
(`lookup`), of the search for a slot never used (`lookup_clean`), of the links
(`From`), of the doubling (`NewSize`). `TailRuns` shows for any such loop that a
function solves it, whether or not the loop ends, and `TailSame` that its value is
that of the state where it ends. That it does end is shown for each of them by the
states it reaches: were none the last, they would have a property no set has.
Resizes and merges are folds over the items: that no round is the first to go
wrong (`NeverWrong`) shows what they end with.

Assumptions: `DictAssumption` (hashes are naturals, `Null` is no key, the first
size is a power of two: 8 in the code) and `HashAssumption` (every content of a
key has a hash, copies are keys; `EqlMay` and `EqlSteps` are of their types).

### Only model-checked

* Constrained variables: `NoLeftovers` and `Agreement` in programs with multiple
  assignment, where the calls of several variables alternate in the agenda.
* Identity constraints: `SameAfterAssign`. Enabling stores into one variable, so
  that what is linked need not be equal before the next assignment, and what
  recalculations store after an assignment depends on the blocks.
* `Interpreter` (parser, compiler, reference and class lookup are
  recursive over trees and class lists), `Arrays` (`flatten`, arrangements) and
  `Numbers` (powers, bits): the prover does no induction over data.
* That calls, walks and programs end, as properties of behaviours, is liveness.

## 6. Hazards

`PROJECT.json` lists each at its line, with the properties that would catch it
or the reason why none does yet. The uncovered ones are the plan's agenda.

## 7. Plan

*Done*: the constrained variables with refinement and proofs; identity
constraints with proofs; fibers with refinement and proofs; mapdict, hashes and
enumerators with what they promise (mapdict and hashes with proofs); programs from syntax to end, with classes,
cells, versions and numbers.

*Left*, in this order:

1. Proofs: `NoLeftovers` for multiple assignment, with stages for a set of
   variables; of `CellDict`, that a table without a new version gives what it gave.
2. `ExecutionModes`: the stacks of execution modes, constraints and remembered
   assignments under exceptions, composed with `Coroutines` (a fiber that yields
   inside `always` or a multiple assignment), and the catch names and recursion
   guards that fibers share. Properties: balance, and that an entry is popped by
   who pushed it. Theorem: balance without fibers.
3. `ConstraintExpressions`: the junction stack of `and`/`or`
   (`constraintinterpreter.py:91`) against the meaning of the expression, as an
   extension of `Compiler` and `Interpreter`.
4. Classes: the hooks `included`, `inherited`, `method_added`, and visibility.
5. Integer packing as operators against reference definitions.

A run asks one question; a violation run that a later module subsumes makes room
for its run.

## 8. Not modelled, and why

* Blocks that yield several constraint objects, or assign variables while they
  are run (`add_assignment`): planned with `ConstraintExpressions`.
* Multiple assignment after rescued errors is in no run; the proofs of `Inv` and
  of `AssertedOnce` cover any operations.
* The terms given to Z3 and the FFI below; the other solvers (empty submodules).
* Two identity constraints between the same pair, and a variable both on the
  path and at an end: hazards, not part of the instance.
* `Fiber.new`, which only keeps its block; how several arguments are packed.
* The lexer's states and the LALR tables: the parser's productions are modelled,
  a program is given as the tree of their applications. Here-documents, string
  interpolation's escapes, regular expressions, flip-flops, `BEGIN`/`END`.
* `Class.new` and how anonymous modules get names; hooks; visibility.
* Printing, formatting, strings and encodings, packing, marshalling, files,
  processes, FFI and start-up: pure I/O or sequential conversion.
* `lib-ruby` but for the solver libraries: copied from MRI.

### What the programs leave out

The interpreter and the reference agree on every program of the list. These
constructs are not in it, as the code treats them otherwise than the language
(or the tests of this repository) does, so that no agreement is to be shown:

* `FrameBlock` keeps one extra item when it cleans the stack
  (`interpreter.py:896`), and `ContinueLoop` cleans nothing (`interpreter.py:912`).
  With an operand pending (`@x = f || next`, `@x = raise` under a rescue) the
  extra item is that operand, or with `next` all of them, and it stays: every such
  round of a loop leaves one more. The programs have these ways out, in loops too,
  for as many rounds as three answers allow, which still fit the stack; the loops
  of `MCLittering` outgrow it (section 4). That a loop begins each round with a clean stack
  is therefore not a property. `next` and `break` inside ensure leave operands too.
* A body with both rescue and else drops one of them (`parser.py:455`).
* A block's default values are evaluated before its captured parameters are
  stored (`objspace.py:755`).
* Block destructuring and splat unpacking change the array they unpack
  (`frame.py:49`, `frame.py:487`).
* A lambda's `call` takes any `RaiseReturn` or `RaiseBreak` for its own
  (`procobject.py:39`).
* `begin ... end while`, `redo`, `retry`, `super` without arguments in a block, an
  optional parameter before a required one, `defined?(a.b)`, an empty `elsif`
  (`parser.py:1824`), `super` in a singleton method, splat arguments next to a
  rescue modifier, the value of an attribute assignment, `||=` on a set variable,
  which stores it again (`ast.py:531`).
* A class variable set in a subclass is written in the ancestor and in the class
  (`moduleobject.py:265`); `respond_to?` after `undef_method`; including a module
  that has gained modules since.

Of numbers: `divmod` next to the ends of the word, whose difference is not
checked (`intobject.py:247`), and `>>` by a negative count (`intobject.py:301`);
the smallest integer divided by -1, which traps in the processor; `x ** 0`,
which answers a Float; the second item of `divmod` with a Float; what is compared
or added to nil (`TypeError` or `ArgumentError` by the receiver); results of
bignums that would fit a word and stay bignums; `<<` of a bignum by a negative
count, an error of the interpreter. `Numbers` has each of them as the code does.

Of arrays and hashes: constrained items (the index of an item variable when the
array shrinks, and insert, shift and range assignment, which bypass it:
`constraintinterpreter.py:339`); `fill` with a negative length; `Array#<=>`,
which compares sizes first (`array.rb:207`); `product`, which reads its receiver
while the block runs; `a.replace(a)`, which empties the array
(`arrayobject.py:86`); `uniq!` with a block (`array.rb:275`); `default_proc=` of a
frozen hash (`hashobject.py:142`); `popitem` of the dictionary as Python runs it,
which differs from the translated one (`ordereddict.py:61` and `720`).
