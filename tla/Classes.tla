------------------------------ MODULE Classes ------------------------------
(* Modules and classes (src/topaz/objects/moduleobject.py, classobject.py): *)
(* where a method, a constant, a class variable is found, and what changes  *)
(* them.  A module is named by its name; a singleton class by the name of   *)
(* what it is attached to.                                                  *)
EXTENDS RubyWorld

Dict == INSTANCE CellDict

NoOne == "none"
IsModule(v) == v[1] = "class"

(* getclass: the class a value's methods are looked for in.                 *)
ClassOf(w, v) ==
  CASE v[1] = "class" -> LET c == w.classes[v[2]]
                         IN IF c.klass # "" THEN c.klass ELSE IF c.kind = "module" THEN "Module" ELSE "Class"
    [] v[1] = "obj" -> IF v[3] \in DOMAIN w.singles THEN w.singles[v[3]] ELSE v[2]
    [] v[1] = "exc" -> v[2]
    [] OTHER -> KindClass[v[1]]

RECURSIVE FindMethod(_, _, _), Ancestors(_, _), IsAncestorOf(_, _, _), FindConst(_, _, _), RemoveClassVar(_, _, _), SingletonOf(_, _)

(* find_method: the class's own, then its modules', then its superclass's.  *)
FindMethodSuperFirst(w, c, name) ==
  LET mods == w.classes[c].included
      has  == SelectSeq(mods, LAMBDA m: FindMethod(w, m, name) # Missing)
      above == FindMethod(w, w.classes[c].super, name)
  IN IF above = Missing /\ has # <<>> THEN FindMethod(w, has[1], name) ELSE above
FindMethodSuper(w, c, name) ==
  LET mods == w.classes[c].included
      has  == SelectSeq(mods, LAMBDA m: FindMethod(w, m, name) # Missing)
  IN IF has # <<>> THEN FindMethod(w, has[1], name) ELSE FindMethod(w, w.classes[c].super, name)
FindMethod(w, c, name) ==
  IF c = "" THEN Missing
  ELSE IF name \in DOMAIN w.classes[c].methods THEN w.classes[c].methods[name] ELSE FindMethodSuper(w, c, name)

Ancestors(w, c) ==
  IF c = "" THEN <<>> ELSE <<c>> \o w.classes[c].included \o Ancestors(w, w.classes[c].super)

(* is_ancestor_of, read the other way round.                                *)
IsAncestorOf(w, m, c) ==
  c # "" /\ (m = c \/ m \in ToSet(w.classes[c].included) \/ IsAncestorOf(w, m, w.classes[c].super))
IsKindOf(w, v, c) == IsAncestorOf(w, c, ClassOf(w, v))

(* Every change of a module's own tables renews its version; its variables   *)
(* are cells.  The lookups of a table are fixed under a version.            *)
ModuleObject(c) == [c EXCEPT !.cvars = Dict!newdict] @@ [version |-> 0, ivars |-> Dict!newdict]
ModuleMutated(w, c) == [w EXCEPT !.classes[c].version = @ + 1]
FixedTables(c) == [methods |-> c.methods, consts |-> c.consts]
DefineMethod(w, c, name, m) == [ModuleMutated(w, c) EXCEPT !.classes[c].methods = (name :> m) @@ @]
Without(table, name) == [n \in DOMAIN table \ {name} |-> table[n]]

(* getsingletonclass: a class's is below that of its superclass.            *)
AddClass(w, name, c) ==
  [w EXCEPT !.classes = (name :> ModuleObject(c)) @@ (IF c.super = "" THEN @ ELSE [@ EXCEPT ![c.super].descendants = @ \union {name}])]
SingletonName(name) == "#<Class:" \o name \o ">"
HasSingleton(w, name) == LET k == w.classes[name].klass IN k # "" /\ w.classes[k].kind = "singleton"
SingletonOf(w, name) ==
  LET c == w.classes[name]
      above == IF c.kind # "module" /\ c.super # "" THEN SingletonOf(w, c.super) ELSE w
      super == CASE c.kind = "module" -> IF c.klass = "" THEN "Module" ELSE c.klass
                 [] c.kind # "module" /\ c.super = "" -> "Class"
                 [] OTHER -> above.classes[c.super].klass
      made == AddClass(above, SingletonName(name), ClassRecord("singleton", super, ""))
  IN IF HasSingleton(w, name) THEN w ELSE [made EXCEPT !.classes[name].klass = SingletonName(name)]
GetSingletonClass(w, v) ==
  LET class == ClassOf(w, v)
      name == "#<" \o class \o ToString(v[3]) \o ">"
      of == SingletonOf(w, v[2])
  IN CASE IsModule(v) -> [world |-> of, class |-> of.classes[v[2]].klass]
       [] v[1] = "obj" /\ w.classes[class].kind = "singleton" -> [world |-> w, class |-> class]
       [] v[1] = "obj" /\ w.classes[class].kind # "singleton" ->
            [world |-> [AddClass(w, name, ClassRecord("singleton", class, "")) EXCEPT !.singles = (v[3] :> name) @@ @], class |-> name]

(* newclass, newmodule; set_const.                                          *)
NewClass(w, name, super) == SingletonOf(AddClass(w, name, ClassRecord("class", super, "")), name)
NewModule(w, name)       == AddClass(w, name, ClassRecord("module", "", ""))
SetConst(w, c, name, v)  == [ModuleMutated(w, c) EXCEPT !.classes[c].consts = (name :> v) @@ @]

(* Constants: a sequence with the one found, or the empty sequence.         *)
FindLocalConst(w, c, name) == IF name \in DOMAIN w.classes[c].consts THEN <<w.classes[c].consts[name]>> ELSE <<>>
FindIncludedConst(w, c, name) ==
  LET has == SelectSeq(<<c>> \o w.classes[c].included, LAMBDA m: name \in DOMAIN w.classes[m].consts)
  IN IF has = <<>> THEN <<>> ELSE FindLocalConst(w, has[1], name)
FindConst(w, c, name) ==
  LET here == FindIncludedConst(w, c, name)
  IN CASE here # <<>> -> here
       [] here = <<>> /\ w.classes[c].kind = "module" -> FindConst(w, "Object", name)
       [] OTHER -> IF w.classes[c].super = "" THEN <<>> ELSE FindConst(w, w.classes[c].super, name)

(* find_lexical_const: the scopes outward, then what the innermost and its  *)
(* superclasses find, then Object.                                          *)
FindLexicalConst(w, scope, name) ==
  LET has == SelectSeq(Reverse(scope), LAMBDA m: name \in DOMAIN w.classes[m].consts)
      above == IF scope = <<>> THEN <<>> ELSE FindConst(w, Last(scope), name)
  IN CASE has # <<>> -> FindLocalConst(w, has[1], name)
       [] has = <<>> /\ above # <<>> -> above
       [] OTHER -> FindConst(w, "Object", name)

HasClassVar(w, c, name) == Dict!Has(w.classes[c].cvars, name)

(* set_class_var: every ancestor that has it, and the class itself; what is *)
(* below loses it.                                                          *)
RemoveClassVar(w, c, name) ==
  LET here == [w EXCEPT !.classes[c].cvars = Dict!delete(@, name)]
  IN FoldSet(LAMBDA d, v: RemoveClassVar(v, d, name), here, w.classes[c].descendants)
SetClassVar(w, c, name, v) ==
  LET set == FoldLeft(LAMBDA x, m: IF m = c \/ HasClassVar(x, m, name) THEN [x EXCEPT !.classes[m].cvars = Dict!set(@, name, v)] ELSE x,
                      w, Reverse(Ancestors(w, c)))
  IN FoldSet(LAMBDA d, x: RemoveClassVar(x, d, name), set, w.classes[c].descendants)
FindClassVar(w, c, name) ==
  LET has == SelectSeq(Ancestors(w, c), LAMBDA m: HasClassVar(w, m, name))
  IN IF has = <<>> THEN <<>> ELSE <<Dict!get(w.classes[has[1]].cvars, name)>>

(* include, append_features, include_module; extend, extend_object.         *)
IncludeModule(w, c, m) ==
  IF m \in ToSet(Ancestors(w, c)) THEN w
  ELSE [w EXCEPT !.classes[c].included = <<m>> \o @, !.classes[m].descendants = @ \union {c}]
Include(w, c, m) ==
  IF c \in ToSet(Ancestors(w, m)) THEN Error(w, "ArgumentError")
  ELSE Answer(FoldLeft(LAMBDA x, a: IncludeModule(x, c, a), w, Reverse(Ancestors(w, m))), Class(c))
Extend(w, v, m) == LET s == GetSingletonClass(w, v) IN Answer(IncludeModule(s.world, s.class, m), v)
IsPlainModule(w, v) == IsModule(v) /\ w.classes[v[2]].kind = "module"

AliasMethod(w, c, new, old) ==
  LET m == IF FindMethod(w, c, old) # Missing THEN FindMethod(w, c, old) ELSE FindMethod(w, "Object", old)
  IN IF m.kind # "user" THEN Error(w, "NameError") ELSE Answer(DefineMethod(w, c, new, m), Class(c))
UndefineMethod(w, c, name) ==
  IF FindMethod(w, c, name).kind # "user" THEN Error(w, "NameError") ELSE Answer(DefineMethod(w, c, name, UndefMethod(name)), Class(c))

(* remove_const, remove_method, remove_class_variable: what is the module's *)
(* own.                                                                     *)
RemoveConst(w, c, name) ==
  LET own == FindLocalConst(w, c, name)
  IN IF own = <<>> THEN Error(w, "NameError")
     ELSE Answer([ModuleMutated(w, c) EXCEPT !.classes[c].consts = Without(@, name)], own[1])
RemoveMethod(w, c, name) ==
  IF name \notin DOMAIN w.classes[c].methods THEN Error(w, "NameError")
  ELSE IF w.classes[c].methods[name].kind = "undef" THEN Error(w, "NameError")
  ELSE Answer([ModuleMutated(w, c) EXCEPT !.classes[c].methods = Without(@, name)], Class(c))
RemoveClassVariable(w, c, name) ==
  IF ~HasClassVar(w, c, name) THEN Error(w, "NameError")
  ELSE Answer([w EXCEPT !.classes[c].cvars = Dict!delete(@, name)], Dict!get(w.classes[c].cvars, name))

(* The variables of a module are in its cells, those of any other value in  *)
(* the value.                                                               *)
SetInstanceVar(w, v, name, val) ==
  IF IsModule(v) THEN [w EXCEPT !.classes[v[2]].ivars = Dict!set(@, name, val)] ELSE SetVar(w, v, name, val)
HasInstanceVar(w, v, name) == IF IsModule(v) THEN Dict!Has(w.classes[v[2]].ivars, name) ELSE HasVar(w, v, name)
FindInstanceVar(w, v, name) ==
  CASE ~HasInstanceVar(w, v, name) -> Nil
    [] IsModule(v) -> Dict!get(w.classes[v[2]].ivars, name)
    [] OTHER -> GetVar(w, v, name)

(* The methods of Module, Class and Kernel that are about classes; any      *)
(* other is one of the library.                                             *)
LibraryMethod(w, recv, name, args) ==
  CASE name = "include" /\ recv \in {MainObject} \union {Class(c) : c \in DOMAIN w.classes} ->
         IF IsPlainModule(w, args[1]) THEN Include(w, IF recv = MainObject THEN "Object" ELSE recv[2], args[1][2]) ELSE Error(w, "TypeError")
    [] name = "extend" -> IF IsPlainModule(w, args[1]) THEN Extend(w, recv, args[1][2]) ELSE Error(w, "TypeError")
    [] name = "is_a?"  -> IF IsModule(args[1]) THEN Answer(w, Bool(IsKindOf(w, recv, args[1][2]))) ELSE Error(w, "TypeError")
    [] IsModule(recv) /\ name = "===" -> Answer(w, Bool(IsKindOf(w, args[1], recv[2])))
    [] IsModule(recv) /\ name = "alias_method" -> AliasMethod(w, recv[2], args[1][2], args[2][2])
    [] IsModule(recv) /\ name = "undef_method" -> UndefineMethod(w, recv[2], args[1][2])
    [] IsModule(recv) /\ name = "remove_const" -> RemoveConst(w, recv[2], args[1][2])
    [] IsModule(recv) /\ name = "remove_method" -> RemoveMethod(w, recv[2], args[1][2])
    [] IsModule(recv) /\ name = "remove_class_variable" -> RemoveClassVariable(w, recv[2], args[1][2])
    [] name = "instance_variable_defined?" -> Answer(w, Bool(HasInstanceVar(w, recv, args[1][2])))
    [] IsModule(recv) /\ name = "const_defined?" -> Answer(w, Bool(FindConst(w, recv[2], args[1][2]) # <<>>))
    [] IsModule(recv) /\ name = "class_variable_defined?" -> Answer(w, Bool(FindClassVar(w, recv[2], args[1][2]) # <<>>))
    [] OTHER -> Primitive(w, recv, name, args)
=============================================================================
