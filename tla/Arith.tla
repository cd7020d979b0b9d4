-------------------------------- MODULE Arith ---------------------------------
(***************************************************************************)
(* The operators on numbers (vm/arith.rs) and what a number is as a key    *)
(* (heap/table/key.rs), over integers and floats of any size.              *)
(*                                                                         *)
(* A float is counted in units, the least one there is: 2^Fraction of them *)
(* make one.  Infinity is the number that would follow the greatest float, *)
(* which is where rounding gets to and how it compares; NaN is apart.  A   *)
(* float's zero has no sign here.                                          *)
(***************************************************************************)
EXTENDS Integers

CONSTANTS
  Width,      (* bits of an integer: 64                                    *)
  Precision,  (* bits of a float's significand: 53                         *)
  Fraction,   (* the least float is 2^-Fraction: 1074                      *)
  Binades     (* how often a float's unit may double: 2045                 *)

ASSUME NumbersAssumption ==
  /\ {Width, Precision} \subseteq Nat \ {0}
  /\ {Fraction, Binades} \subseteq Nat
  /\ Precision + Binades >= Width - 1 + Fraction

High == 2 ^ (Width - 1)
Integers_ == -High .. High - 1
One == 2 ^ Fraction
Infinity == 2 ^ (Precision + Binades)

(* Powers of two, whose arithmetic the provers do not know.                *)
ASSUME PowersAssumption == {High, One} \subseteq Nat \ {0}

Abs(n) == IF n < 0 THEN -n ELSE n

(* Values: integers, floats, and whatever is not a number.                 *)
Int_(n) == [type |-> "int", n |-> n]
Float(u) == [type |-> "float", n |-> u]
NaN == [type |-> "nan", n |-> 0]
Other == [type |-> "other", n |-> 0]
Bool(b) == [type |-> "bool", n |-> IF b THEN 1 ELSE 0]

(* `number`; a NaN is one.                                                 *)
IsNumber(v) == v.type \in {"int", "float", "nan"}

-----------------------------------------------------------------------------
(* What the machine does by itself: wrapping, truncated division, and      *)
(* floats rounded to the nearest, ties to the even one.                    *)
Unsigned(n) == n % (2 * High)
Wrapped(n) == IF Unsigned(n) < High THEN Unsigned(n) ELSE Unsigned(n) - 2 * High

Quotient(a, b) ==
  IF (a < 0) = (b < 0) THEN Abs(a) \div Abs(b) ELSE -(Abs(a) \div Abs(b))
Remainder(a, b) == IF a < 0 THEN -(Abs(a) % Abs(b)) ELSE Abs(a) % Abs(b)

(* num / den in units, to the nearest float; den is positive.              *)
HalfUp(n, d) == n \div d + (IF 2 * (n % d) > d \/ (2 * (n % d) = d /\ (n \div d) % 2 = 1) THEN 1 ELSE 0)
Spacing(num, den) ==
  LET grows[k \in 0 .. Binades] ==
        IF k < Binades /\ num >= den * 2 ^ (Precision + k) THEN grows[k + 1] ELSE 2 ^ k
  IN  grows[0]
Least(a, b) == IF a < b THEN a ELSE b
Rounded(num, den) ==
  IF num < 0 THEN -Least(Infinity, Spacing(-num, den) * HalfUp(-num, den * Spacing(-num, den)))
  ELSE Least(Infinity, Spacing(num, den) * HalfUp(num, den * Spacing(num, den)))

IsInfinite(u) == Abs(u) = Infinity
Sign(n) == IF n < 0 THEN -1 ELSE IF n = 0 THEN 0 ELSE 1

FloatAdd(a, b) ==
  IF IsInfinite(a) /\ IsInfinite(b) /\ a # b THEN NaN
  ELSE IF IsInfinite(a) THEN Float(a) ELSE IF IsInfinite(b) THEN Float(b)
  ELSE Float(Rounded(a + b, 1))
FloatMul(a, b) ==
  IF IsInfinite(a) \/ IsInfinite(b)
  THEN IF a = 0 \/ b = 0 THEN NaN ELSE Float(Sign(a) * Sign(b) * Infinity)
  ELSE Float(Rounded(a * b, One))
FloatDiv(a, b) ==
  IF b = 0 \/ IsInfinite(a)
  THEN IF (b = 0 /\ a = 0) \/ IsInfinite(b) THEN NaN
       ELSE Float(Sign(a) * (IF b < 0 THEN -1 ELSE 1) * Infinity)
  ELSE IF IsInfinite(b) THEN Float(0)
  ELSE Float(Rounded(Sign(b) * a * One, Abs(b)))
FloatFloor(v) == IF v.type = "nan" THEN v ELSE Float((v.n \div One) * One)

-----------------------------------------------------------------------------
(* `float`: an integer as a float, which may lose its low bits.            *)
ToFloat(v) == IF v.type = "int" THEN Float(Rounded(v.n * One, 1)) ELSE v

(* `integer`: a whole float in range is an integer as well.  The float     *)
(* bounds are -2^63 and 2^63, so the upper one is out.                     *)
IsWhole(u) == u % One = 0 /\ -High * One <= u /\ u < High * One
HasInteger(v) == v.type = "int" \/ (v.type = "float" /\ IsWhole(v.n))
Integer(v) == IF v.type = "int" THEN v.n ELSE v.n \div One

(* Mutant: the quotient is rounded towards zero.                           *)
FloorDiv_Truncates(a, b) == Wrapped(Quotient(a, b))

FloorDiv(a, b) ==
  IF Remainder(a, b) # 0 /\ (a < 0) # (b < 0) THEN Wrapped(Quotient(a, b)) - 1
  ELSE Wrapped(Quotient(a, b))

FloorMod(a, b) ==
  IF Remainder(a, b) # 0 /\ (Remainder(a, b) < 0) # (b < 0) THEN Remainder(a, b) + b
  ELSE Remainder(a, b)

(* float_mod: the machine's remainder is exact.                            *)
FloatMod(a, b) ==
  IF b = 0 \/ IsInfinite(a) THEN NaN
  ELSE LET rest == IF IsInfinite(b) THEN a ELSE Remainder(a, b)
       IN  IF rest # 0 /\ (rest < 0) # (b < 0) THEN FloatAdd(rest, b) ELSE Float(rest)

(* shift: by the width or more, nothing is left.                           *)
Shift(value, places) ==
  IF places <= -Width \/ places >= Width THEN 0
  ELSE IF places >= 0 THEN Wrapped(Unsigned(value) * 2 ^ places)
  ELSE Wrapped(Unsigned(value) \div 2 ^ (-places))

(* Two integers bit by bit; `keep` says which pairs of bits make a one.    *)
Bits(a, b, keep) ==
  LET bit(n, i) == (Unsigned(n) \div 2 ^ i) % 2
      upTo[i \in 0 .. Width] ==
        IF i = 0 THEN 0
        ELSE upTo[i - 1] + (IF bit(a, i - 1) + bit(b, i - 1) \in keep THEN 2 ^ (i - 1) ELSE 0)
  IN  Wrapped(upTo[Width])

-----------------------------------------------------------------------------
(* The answers of the operators.  An error says which operand it blames.   *)
Error(why, blamed) == [type |-> why, n |-> blamed]
Left == 1
Right == 2

(* arith_error, and its like for a bitwise operator: the first operand     *)
(* that is not a number; of two numbers, the first that is no integer.     *)
NotANumber(left) == IF IsNumber(left) THEN Right ELSE Left
ArithError(left) == Error("arithmetic", NotANumber(left))
BitwiseError(left, right) ==
  IF IsNumber(left) /\ IsNumber(right)
  THEN Error("norepresentation", IF HasInteger(left) THEN Right ELSE Left)
  ELSE Error("bitwise", NotANumber(left))

OnIntegers(kind, a, b) ==
  CASE kind = "Add" -> Int_(Wrapped(a + b))
    [] kind = "Sub" -> Int_(Wrapped(a - b))
    [] kind = "Mul" -> Int_(Wrapped(a * b))
    [] kind = "IDiv" -> IF b = 0 THEN Error("zero", Right) ELSE Int_(FloorDiv(a, b))
    [] kind = "Mod" -> IF b = 0 THEN Error("zero", Right) ELSE Int_(FloorMod(a, b))

OnFloats(kind, a, b) ==
  CASE kind = "Add" -> FloatAdd(a, b)
    [] kind = "Sub" -> FloatAdd(a, -b)
    [] kind = "Mul" -> FloatMul(a, b)
    [] kind = "Div" -> FloatDiv(a, b)
    [] kind = "IDiv" -> FloatFloor(FloatDiv(a, b))
    [] kind = "Mod" -> FloatMod(a, b)

Ariths == {"Add", "Sub", "Mul", "Div", "IDiv", "Mod"}
Arithmetic(kind, left, right) ==
  IF ~IsNumber(left) \/ ~IsNumber(right) THEN ArithError(left)
  ELSE IF kind # "Div" /\ left.type = "int" /\ right.type = "int"
  THEN OnIntegers(kind, left.n, right.n)
  ELSE IF ToFloat(left).type = "nan" \/ ToFloat(right).type = "nan" THEN NaN
  ELSE OnFloats(kind, ToFloat(left).n, ToFloat(right).n)

Negate(operand) ==
  CASE operand.type = "int" -> Int_(Wrapped(-operand.n))
    [] operand.type = "float" -> Float(-operand.n)
    [] operand.type = "nan" -> NaN
    [] operand.type = "other" -> ArithError(operand)

OnBits(kind, a, b) ==
  CASE kind = "And" -> Bits(a, b, {2})
    [] kind = "Or" -> Bits(a, b, {1, 2})
    [] kind = "Xor" -> Bits(a, b, {1})
    [] kind = "Shl" -> Shift(a, b)
    [] kind = "Shr" -> Shift(a, Wrapped(-b))

Bitwises == {"And", "Or", "Xor", "Shl", "Shr"}
Bitwise_(kind, left, right) ==
  IF HasInteger(left) /\ HasInteger(right)
  THEN Int_(OnBits(kind, Integer(left), Integer(right)))
  ELSE BitwiseError(left, right)

Complement(operand) ==
  IF HasInteger(operand) THEN Int_(-Integer(operand) - 1) ELSE BitwiseError(operand, operand)

-----------------------------------------------------------------------------
(* order: -1, 0 or 1, or 2 where there is none.                            *)
Unordered == 2
Cmp(a, b) == IF a < b THEN -1 ELSE IF a = b THEN 0 ELSE 1

(* Mutant: the integer is made a float.                                    *)
Against_AsFloats(n, u) == Cmp(Rounded(n * One, 1), u)

(* against: the float is rounded down, so that no bit of the integer goes. *)
Against(n, u) ==
  IF u >= High * One THEN -1
  ELSE IF u < -High * One THEN 1
  ELSE IF n = u \div One /\ u > (u \div One) * One THEN -1
  ELSE Cmp(n, u \div One)

Order(left, right) ==
  CASE left.type = "nan" \/ right.type = "nan" -> Unordered
    [] left.type = right.type -> Cmp(left.n, right.n)
    [] left.type = "int" /\ right.type = "float" -> Against(left.n, right.n)
    [] left.type = "float" /\ right.type = "int" -> -Against(right.n, left.n)

Equal(left, right) ==
  Bool(IF IsNumber(left) /\ IsNumber(right) THEN Order(left, right) = 0
       ELSE ~IsNumber(left) /\ left = right)

Compares == {"Lt", "Le", "Gt", "Ge"}
Compare(kind, left, right) ==
  LET first == IF kind \in {"Gt", "Ge"} THEN right ELSE left
      second == IF kind \in {"Gt", "Ge"} THEN left ELSE right
  IN  IF ~IsNumber(left) \/ ~IsNumber(right) THEN Error("compare", Left)
      ELSE IF kind \in {"Lt", "Gt"} THEN Bool(Order(first, second) = -1)
      ELSE Bool(Order(first, second) \in {-1, 0})

(* Mutant: a float is a key of its own.                                    *)
Normalize_KeepsFloats(key) == key

(* normalize: the key a value is in a table; a NaN is refused.             *)
Normalize(key) ==
  CASE key.type = "nan" -> Error("key", Left)
    [] HasInteger(key) -> Int_(Integer(key))
    [] OTHER -> key

-----------------------------------------------------------------------------
(* What the answers are compared with.                                     *)
(* The floor of a / b, and what is left, for any two integers.             *)
IsFloor(q, a, b) == IF b > 0 THEN q * b <= a /\ a < q * b + b ELSE q * b >= a /\ a > q * b + b
IsModulo(m, a, b) ==
  /\ IF b > 0 THEN 0 <= m /\ m < b ELSE b < m /\ m <= 0
  /\ (a - m) % Abs(b) = 0

(* Units, of either kind of number.                                        *)
Exact(v) == IF v.type = "int" THEN v.n * One ELSE v.n
===============================================================================
