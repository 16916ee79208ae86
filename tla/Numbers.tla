------------------------------ MODULE Numbers ------------------------------
(***************************************************************************)
(* Fixnum and Bignum (topaz/objects/intobject.py, bignumobject.py,         *)
(* numericobject.py, lib-topaz/numeric.rb): arithmetic in machine          *)
(* integers that goes on in bignums when it overflows.                     *)
(*                                                                         *)
(* A number is <<"int", i>>, <<"big", i>> or <<"float", i>>: of floats only *)
(* those with an integral value occur, as what methods on integers answer  *)
(* and are given.  A method answers a number, true, false, nil, a pair or  *)
(* <<"error", class>>.                                                     *)
(***************************************************************************)
EXTENDS Integers

CONSTANTS
  LONG_BIT,   \* the bits of a machine integer
  MaxInt      \* sys.maxint

ASSUME WordAssumption ==
  /\ LONG_BIT \in Nat \ {0} /\ MaxInt \in Nat
  /\ MaxInt + 1 = 2^(LONG_BIT - 1)

MinInt  == -MaxInt - 1
InRange(i) == MinInt <= i /\ i <= MaxInt

Fixnum(i) == <<"int", i>>
Bignum(i) == <<"big", i>>
Float(i)  == <<"float", i>>
IsNumber(v) == v[1] \in {"int", "big", "float"}
Truth(b)  == IF b THEN <<"true">> ELSE <<"false">>
Pair(a, b) == <<"pair", a, b>>
Failed(class) == <<"error", class>>

(* An int or a long, as ovfcheck and toint decide it.                      *)
NewintOrBigint(i) == IF InRange(i) THEN Fixnum(i) ELSE Bignum(i)

(* The machine's own result of what is not checked.                        *)
Intmask(i) == ((i + MaxInt + 1) % (2 * (MaxInt + 1))) - MaxInt - 1

(* Division rounds down, the rest has the divisor's sign.                  *)
FloorDiv(a, b) == IF b > 0 THEN a \div b ELSE (-a) \div (-b)
FloorMod(a, b) == a - b * FloorDiv(a, b)

(* What divides the smallest integer by -1 traps in the processor.         *)
Traps(x, y) == x = MinInt /\ y = -1
Trapped == Failed("SIGFPE")

(* retry_binop_coercing of a Fixnum and what is no Fixnum: coerce makes    *)
(* both floats, or whatever it raises is an ArgumentError.                 *)
RetryCoercing(y, F(_)) == IF IsNumber(y) THEN F(y[2]) ELSE Failed("ArgumentError")

(* Coerce.int and Coerce.bigint of an argument.                            *)
CoerceInt(y, F(_)) ==
  CASE ~IsNumber(y) -> Failed("TypeError")
    [] IsNumber(y) /\ ~InRange(y[2]) -> Failed("RangeError")
    [] OTHER -> F(y[2])
CoerceBigint(y, F(_)) == IF IsNumber(y) THEN F(y[2]) ELSE Failed("TypeError")

-----------------------------------------------------------------------------
(* Methods of a Fixnum x.                                                  *)

Binop(op(_, _), x, y) ==
  CASE y[1] = "int"   -> NewintOrBigint(op(x, y[2]))
    [] y[1] = "big"   -> Bignum(op(x, y[2]))
    [] y[1] = "float" -> Float(op(x, y[2]))
    [] OTHER -> Failed("ArgumentError")

(* A quotient of integers that fits is a Fixnum.                           *)
Quotient(x, y) == IF y = 0 THEN Failed("ZeroDivisionError") ELSE NewintOrBigint(FloorDiv(x, y))
Divide(x, y) ==
  CASE y[1] = "int" -> IF Traps(x, y[2]) THEN Trapped ELSE Quotient(x, y[2])
    [] y[1] = "big" -> Quotient(x, y[2])
    [] OTHER -> Failed("ArgumentError")

Modulo(x, y) ==
  CASE y[1] = "int" /\ y[2] = 0 -> Failed("ZeroDivisionError")
    [] y[1] = "int" /\ y[2] # 0 -> IF Traps(x, y[2]) THEN Trapped ELSE Fixnum(FloorMod(x, y[2]))
    [] y[1] = "big" -> IF y[2] = 0 THEN Failed("ZeroDivisionError") ELSE Bignum(FloorMod(x, y[2]))
    [] OTHER -> Failed("TypeError")

(* divmod of two Fixnums: the difference is not checked for overflow, the  *)
(* rest is a float.                                                        *)
Divmod(x, y) ==
  CASE y[1] = "int" /\ y[2] # 0 ->
         IF Traps(x, y[2]) THEN Trapped
         ELSE LET mod == FloorMod(x, y[2])
              IN Pair(Fixnum(FloorDiv(Intmask(x - mod), y[2])), Float(mod))
    [] y[1] = "big" /\ y[2] # 0 -> Pair(Bignum(FloorDiv(x, y[2])), Bignum(FloorMod(x, y[2])))
    [] y[1] \in {"int", "big"} /\ y[2] = 0 -> Failed("ZeroDivisionError")
    [] OTHER -> Failed("TypeError")

(* The loop of method_pow_int_impl leaves the machine's integers exactly   *)
(* when the power does.  Powers that are fractions are not modelled.       *)
Pow(x, y) ==
  CASE y[1] = "int" /\ y[2] > 0 -> NewintOrBigint(x^y[2])
    [] y[1] = "int" /\ y[2] = 0 -> Float(1)
    [] y[1] = "big" /\ y[2] >= 0 -> Bignum(x^y[2])
    [] ~IsNumber(y) -> Failed("TypeError")

(* Shifts: a negative count goes the other way, where nothing checks the   *)
(* result; a count of the word's width or more is undefined there.         *)
LeftShift(x, n) ==
  CASE n < 0 /\ -n < LONG_BIT -> Fixnum(FloorDiv(x, 2^(-n)))
    [] n >= LONG_BIT -> Bignum(x * 2^n)
    [] n \in 0..(LONG_BIT - 1) -> NewintOrBigint(x * 2^n)
RightShift(x, n) ==
  CASE n < 0 /\ -n < LONG_BIT -> Fixnum(Intmask(x * 2^(-n)))
    [] n \in 0..(LONG_BIT - 1) -> Fixnum(FloorDiv(x, 2^n))

(* The bits of the word.                                                   *)
Bit(v, i) == FloorDiv(v, 2^i) % 2
Bitwise(f(_, _), x, y) ==
  CHOOSE v \in MinInt..MaxInt :
    \A i \in 0..(LONG_BIT - 1) : Bit(v, i) = f(Bit(x, i), Bit(y, i))
BitOp(f(_, _), x, y) ==
  CASE y[1] \in {"int", "float"} -> Fixnum(Bitwise(f, x, y[2]))
    [] ~IsNumber(y) -> Failed("TypeError")
Subscript(x, i) == Fixnum(IF i \in 0..(LONG_BIT - 1) THEN Bit(x, i) ELSE 0)

Comparator(x, y) == IF x < y THEN -1 ELSE IF x = y THEN 0 ELSE 1
(* A Fixnum is not compared with a Bignum.                                 *)
Compare(x, y) ==
  IF y[1] \in {"int", "float"} THEN Fixnum(Comparator(x, y[2])) ELSE <<"nil">>
BoolOp(op(_, _), x, y) == RetryCoercing(y, LAMBDA z : Truth(op(x, z)))

FixnumMethod(name, x, y) ==
  CASE name = "+"  -> Binop(LAMBDA a, b : a + b, x, y)
    [] name = "-"  -> Binop(LAMBDA a, b : a - b, x, y)
    [] name = "*"  -> Binop(LAMBDA a, b : a * b, x, y)
    [] name = "**" -> Pow(x, y)
    [] name \in {"/", "div"} -> Divide(x, y)
    [] name \in {"%", "modulo"} -> Modulo(x, y)
    [] name = "divmod" -> Divmod(x, y)
    [] name = "<<" -> CoerceInt(y, LAMBDA n : LeftShift(x, n))
    [] name = ">>" -> CoerceInt(y, LAMBDA n : RightShift(x, n))
    [] name = "&"  -> BitOp(LAMBDA a, b : a * b, x, y)
    [] name = "|"  -> BitOp(LAMBDA a, b : a + b - a * b, x, y)
    [] name = "^"  -> BitOp(LAMBDA a, b : (a + b) % 2, x, y)
    [] name = "[]" -> CoerceInt(y, LAMBDA i : Subscript(x, i))
    [] name = "==" -> Truth(IsNumber(y) /\ x = y[2])
    [] name = "<=>" -> Compare(x, y)
    [] name = "<"  -> BoolOp(LAMBDA a, b : a < b, x, y)
    [] name = "<=" -> BoolOp(LAMBDA a, b : a <= b, x, y)
    [] name = ">"  -> BoolOp(LAMBDA a, b : a > b, x, y)
    [] name = ">=" -> BoolOp(LAMBDA a, b : a >= b, x, y)
    [] name = "coerce" ->
         IF y[1] = "int" THEN Pair(y, Fixnum(x))
         ELSE IF IsNumber(y) THEN Pair(Float(y[2]), Fixnum(x)) ELSE Failed("TypeError")
FixnumUnary(name, x) ==
  CASE name = "-@" -> Binop(LAMBDA a, b : a - b, 0, Fixnum(x))
    [] name = "~"  -> Fixnum(-x - 1)

-----------------------------------------------------------------------------
(* Methods of a Bignum x: what they answer stays a Bignum, but for a       *)
(* quotient that fits and the rest of a division by a Fixnum.              *)

BigDivmod(x, y) ==
  CASE y[1] \in {"int", "big"} /\ y[2] # 0 -> Pair(Bignum(FloorDiv(x, y[2])), Bignum(FloorMod(x, y[2])))
    [] y[1] \in {"int", "big"} /\ y[2] = 0 -> Failed("ZeroDivisionError")
    [] OTHER -> Failed("TypeError")
BigModulo(x, y) ==
  CASE y[1] \in {"int", "big"} /\ y[2] # 0 -> <<y[1], FloorMod(x, y[2])>>
    [] y[1] \in {"int", "big"} /\ y[2] = 0 -> Failed("ZeroDivisionError")
    [] OTHER -> Failed("TypeError")
(* lshift raises an error of the interpreter, not of the program.          *)
BigLeftShift(x, n) == IF n < 0 THEN Failed("ValueError") ELSE Bignum(x * 2^n)

BignumMethod(name, x, y) ==
  CASE name = "+"  -> CoerceBigint(y, LAMBDA z : Bignum(x + z))
    [] name = "-"  -> CoerceBigint(y, LAMBDA z : Bignum(x - z))
    [] name = "*"  -> CoerceBigint(y, LAMBDA z : Bignum(x * z))
    [] name = "**" -> IF IsNumber(y) THEN Bignum(x^y[2]) ELSE Failed("TypeError")
    [] name \in {"/", "div"} -> IF IsNumber(y) THEN Quotient(x, y[2]) ELSE Failed("ArgumentError")
    [] name \in {"%", "modulo"} -> BigModulo(x, y)
    [] name = "divmod" -> BigDivmod(x, y)
    [] name = "<<" -> CoerceInt(y, LAMBDA n : BigLeftShift(x, n))
    [] name = "==" -> CoerceBigint(y, LAMBDA z : Truth(x = z))
    [] name = "<=>" -> CoerceBigint(y, LAMBDA z : Fixnum(Comparator(x, z)))
    [] name = "<"  -> CoerceBigint(y, LAMBDA z : Truth(Comparator(x, z) < 0))
    [] name = "<=" -> CoerceBigint(y, LAMBDA z : Truth(Comparator(x, z) <= 0))
    [] name = ">"  -> CoerceBigint(y, LAMBDA z : Truth(Comparator(x, z) > 0))
    [] name = ">=" -> CoerceBigint(y, LAMBDA z : Truth(Comparator(x, z) >= 0))
    [] name = "coerce" ->
         IF y[1] \in {"int", "big"} THEN Pair(Bignum(y[2]), Bignum(x)) ELSE Failed("TypeError")

(* The methods by the number of their arguments.                           *)
Operators == {"+", "-", "*", "**", "/", "div", "%", "modulo", "divmod", "<<", "==", "<=>", "<", "<=", ">", ">=", "coerce"}
FixnumOperators == Operators \cup {">>", "&", "|", "^", "[]"}
IntegerMethod(name, v, y) == IF v[1] = "int" THEN FixnumMethod(name, v[2], y) ELSE BignumMethod(name, v[2], y)
=============================================================================
