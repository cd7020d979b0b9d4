------------------------------- MODULE Numbers --------------------------------
(***************************************************************************)
(* Numbers from text to answer: a numeral is read (lexer/number.rs), byte  *)
(* by byte where it is hexadecimal, and the number it stands for, or one   *)
(* that is given, goes through the operators of Arith one after another.   *)
(*                                                                         *)
(* Hexadecimal floats are put together by hand, in a mantissa as wide as   *)
(* an integer; what a decimal with a point or an exponent stands for is    *)
(* the standard library's, and so are the operations of Arith on floats.   *)
(***************************************************************************)
EXTENDS Arith

CONSTANTS
  DigitBits,  (* bits of a hexadecimal digit: 4                            *)
  MaxDigits,  (* digits of a numeral                                       *)
  Exponents,  (* the exponents written                                     *)
  Decimals    (* the decimal numerals written                              *)

ASSUME NumeralsAssumption ==
  /\ {DigitBits, MaxDigits} \subseteq Nat
  /\ Exponents \subseteq Int /\ Decimals \subseteq Nat
  /\ Width - DigitBits >= Precision

VARIABLES
  text,    (* the numeral being read; of the digits, both what the reader  *)
           (* keeps and, for the properties, their exact number            *)
  number,  (* the number in hand                                           *)
  last     (* the operator applied last, to what, with which answer        *)

vars == <<text, number, last>>

Nothing == [type |-> "none", n |-> 0]
Empty == [wrapped |-> 0, mantissa |-> 0, scale |-> 0, sticky |-> FALSE, digits |-> 0,
          fraction |-> FALSE, exact |-> 0, ends |-> "", exponent |-> 0]
Idle == [op |-> "", left |-> Nothing, right |-> Nothing, answer |-> Nothing]

Floats ==
  {s * m * 2 ^ k : s \in {-1, 1}, m \in 0 .. 2 ^ Precision - 1, k \in 0 .. Binades}
    \cup {-Infinity, Infinity}
Values == {Int_(n) : n \in Integers_} \cup {Float(u) : u \in Floats} \cup {NaN, Other}

-----------------------------------------------------------------------------
(* drop_low_bits: what is left, the highest bit dropped, and whether any   *)
(* other was set.                                                          *)
DropLowBits(value, count) ==
  IF count = 0 THEN [value |-> value, round |-> FALSE, lost |-> FALSE]
  ELSE IF count > Width THEN [value |-> 0, round |-> FALSE, lost |-> value # 0]
  ELSE [value |-> value \div 2 ^ count,
        round |-> (value \div 2 ^ (count - 1)) % 2 = 1,
        lost |-> value % 2 ^ (count - 1) # 0]

BitLength(n) == CHOOSE b \in 0 .. Width : n < 2 ^ b /\ (b > 0 => n >= 2 ^ (b - 1))

(* Significant bits as many as a float has, and fewer below the least      *)
(* normal one, where what the first cut dropped only sticks.               *)
Cut(mantissa) ==
  IF BitLength(mantissa) > Precision
  THEN DropLowBits(mantissa, BitLength(mantissa) - Precision)
  ELSE [value |-> mantissa * 2 ^ (Precision - BitLength(mantissa)), round |-> FALSE, lost |-> FALSE]

(* Mutant: below the least normal float, what the first cut dropped is     *)
(* forgotten.                                                              *)
Lowered_Forgets(cut, exponent) ==
  IF exponent >= -Fraction THEN cut ELSE DropLowBits(cut.value, -Fraction - exponent)

Lowered(cut, exponent) ==
  LET again == DropLowBits(cut.value, -Fraction - exponent)
  IN  IF exponent >= -Fraction THEN cut
      ELSE [again EXCEPT !.lost = @ \/ cut.round \/ cut.lost]

Assembled(mantissa, exponent) ==
  IF mantissa >= 2 ^ (Precision - 1) /\ exponent > Binades - Fraction THEN Infinity
  ELSE mantissa * 2 ^ (exponent + Fraction)
RoundedUp(cut, exponent) ==
  IF cut.value + 1 = 2 ^ Precision THEN Assembled(2 ^ (Precision - 1), exponent + 1)
  ELSE Assembled(cut.value + 1, exponent)
Finished(cut, exponent, sticky) ==
  IF cut.round /\ (sticky \/ cut.lost \/ cut.value % 2 = 1)
  THEN RoundedUp(cut, exponent) ELSE Assembled(cut.value, exponent)

(* scaled: mantissa * 2^scale and a little more if `sticky`.               *)
Scaled(mantissa, scale, sticky) ==
  LET exponent == scale + BitLength(mantissa) - Precision
  IN  IF mantissa = 0 THEN 0
      ELSE Finished(Lowered(Cut(mantissa), exponent),
                    IF exponent < -Fraction THEN -Fraction ELSE exponent, sticky)

-----------------------------------------------------------------------------
Reading == number = Nothing /\ text.ends = ""

(* Mutant: a zero that does not fit is not counted either.                 *)
ScanDigit_DropsZeros(d) ==
  LET fits == text.mantissa <= (2 * High - 1) \div 2 ^ DigitBits
  IN  /\ Reading /\ text.digits < MaxDigits
      /\ text' = [text EXCEPT
           !.wrapped = Unsigned(@ * 2 ^ DigitBits + d),
           !.exact = @ * 2 ^ DigitBits + d,
           !.exponent = IF text.fraction THEN @ - DigitBits ELSE @,
           !.digits = @ + 1,
           !.mantissa = IF fits THEN @ * 2 ^ DigitBits + d ELSE @,
           !.sticky = @ \/ (~fits /\ d # 0),
           !.scale = IF fits THEN IF text.fraction THEN @ - DigitBits ELSE @
                     ELSE IF text.fraction \/ d = 0 THEN @ ELSE @ + DigitBits]
      /\ UNCHANGED <<number, last>>

(* A digit: into the mantissa while there is room, and after that only     *)
(* counted.  Read as an integer it wraps around.                           *)
ScanDigit(d) ==
  LET fits == text.mantissa <= (2 * High - 1) \div 2 ^ DigitBits
  IN  /\ Reading /\ text.digits < MaxDigits
      /\ text' = [text EXCEPT
           !.wrapped = Unsigned(@ * 2 ^ DigitBits + d),
           !.exact = @ * 2 ^ DigitBits + d,
           !.exponent = IF text.fraction THEN @ - DigitBits ELSE @,
           !.digits = @ + 1,
           !.mantissa = IF fits THEN @ * 2 ^ DigitBits + d ELSE @,
           !.sticky = @ \/ (~fits /\ d # 0),
           !.scale = IF fits THEN IF text.fraction THEN @ - DigitBits ELSE @
                     ELSE IF text.fraction THEN @ ELSE @ + DigitBits]
      /\ UNCHANGED <<number, last>>

(* The one point a numeral may have.                                       *)
ScanPoint ==
  /\ Reading /\ ~text.fraction
  /\ text' = [text EXCEPT !.fraction = TRUE]
  /\ UNCHANGED <<number, last>>

Signs == {"plus", "minus"}
Signed(sign, v) == IF sign = "plus" THEN v ELSE Negate(v)

(* A numeral without point and exponent is an integer, which wraps.        *)
EndInteger(sign) ==
  /\ Reading /\ text.digits > 0 /\ ~text.fraction
  /\ number' = Signed(sign, Int_(Wrapped(text.wrapped)))
  /\ text' = [text EXCEPT !.ends = sign]
  /\ UNCHANGED last

(* The exponent may be missing after a point, and is then none.            *)
EndFloat(sign, exponent) ==
  /\ Reading /\ text.digits > 0
  /\ number' = Signed(sign, Float(Scaled(text.mantissa, text.scale + exponent, text.sticky)))
  /\ text' = [text EXCEPT !.ends = sign, !.exponent = @ + exponent, !.fraction = TRUE]
  /\ UNCHANGED last

(* Mutant: the least integer is the negation of a float.                   *)
Decimal_NoLeast(sign, n) ==
  Signed(sign, IF n \in Integers_ THEN Int_(n) ELSE Float(Rounded(n * One, 1)))

(* decimal_value and, of a string that becomes a number, parse_number: an  *)
(* integer if it fits, and the least one fits only with its sign.          *)
Decimal(sign, n) ==
  IF sign = "minus" /\ n = High THEN Int_(-High)
  ELSE Signed(sign, IF n \in Integers_ THEN Int_(n) ELSE Float(Rounded(n * One, 1)))
ReadDecimal(sign, n) ==
  /\ Reading /\ text = Empty
  /\ number' = Decimal(sign, n)
  /\ text' = [text EXCEPT !.ends = sign, !.exact = n]
  /\ UNCHANGED last

Given(value) ==
  /\ Reading /\ text = Empty
  /\ number' = value
  /\ UNCHANGED <<text, last>>

(* The numeral's number is an operand like any other.                      *)
Uses ==
  /\ text.ends # ""
  /\ text' = Empty
  /\ UNCHANGED <<number, last>>

-----------------------------------------------------------------------------
Apply(op, left, right) ==
  CASE op \in Ariths -> Arithmetic(op, left, right)
    [] op \in Bitwises -> Bitwise_(op, left, right)
    [] op \in Compares -> Compare(op, left, right)
    [] op = "Equal" -> Equal(left, right)
    [] op = "Negate" -> Negate(left)
    [] op = "Complement" -> Complement(left)

Ready == text = Empty /\ number # Nothing /\ last = Idle

Operate(op, right) ==
  /\ Ready
  /\ last' = [op |-> op, left |-> number, right |-> right, answer |-> Apply(op, number, right)]
  /\ UNCHANGED <<text, number>>

(* The answer, if it is a number, is what the next operator works on.      *)
GoOn ==
  /\ last # Idle /\ IsNumber(last.answer)
  /\ number' = last.answer
  /\ last' = Idle
  /\ UNCHANGED text

Init == text = Empty /\ number = Nothing /\ last = Idle

Binary == Ariths \cup Bitwises \cup Compares \cup {"Equal"}
Next ==
  \/ \E d \in 0 .. 2 ^ DigitBits - 1 : ScanDigit(d)
  \/ ScanPoint
  \/ \E sign \in Signs : EndInteger(sign) \/ \E e \in Exponents : EndFloat(sign, e)
  \/ \E sign \in Signs, n \in Decimals : ReadDecimal(sign, n)
  \/ \E v \in Values : Given(v)
  \/ Uses
  \/ \E op \in Binary, right \in Values : Operate(op, right)
  \/ \E op \in {"Negate", "Complement"} : Operate(op, Nothing)
  \/ GoOn

Spec == Init /\ [][Next]_vars

-----------------------------------------------------------------------------
(* The float nearest to num / den units, the even one of two.              *)
IsNearest(f, num, den) ==
  LET distance(g) == Abs(g * den - num)
  IN  /\ f \in Floats
      /\ \A g \in Floats \ {f} :
           \/ distance(f) < distance(g)
           \/ distance(f) = distance(g) /\ (f \div Abs(f - g)) % 2 = 0

(* A numeral stands for the number it spells: an integer if it is one and  *)
(* fits, wrapped around if it is hexadecimal, and otherwise the nearest    *)
(* float there is, however many digits it has, wherever its point and      *)
(* whatever its exponent.                                                  *)
NumeralIsNearest ==
  text.ends # "" =>
    LET spelled == IF text.ends = "minus" THEN -text.exact ELSE text.exact
        e == text.exponent + Fraction
    IN  IF text.digits = 0
        THEN IF spelled \in Integers_ THEN number = Int_(spelled)
             ELSE number.type = "float" /\ IsNearest(number.n, spelled * One, 1)
        ELSE IF ~text.fraction
        THEN /\ number.type = "int" /\ number.n \in Integers_
             /\ (number.n - spelled) % (2 * High) = 0
        ELSE /\ number.type = "float"
             /\ IF e < 0 THEN IsNearest(number.n, spelled, 2 ^ (-e))
                ELSE IsNearest(number.n, spelled * 2 ^ e, 1)

-----------------------------------------------------------------------------
Congruent(n, exact) == n \in Integers_ /\ (n - exact) % (2 * High) = 0

IntegerAnswer(op, a, b, n) ==
  CASE op = "Add" -> Congruent(n, a + b)
    [] op = "Sub" -> Congruent(n, a - b)
    [] op = "Mul" -> Congruent(n, a * b)
    [] op = "IDiv" -> \E q \in -High .. High : IsFloor(q, a, b) /\ Congruent(n, q)
    [] op = "Mod" -> IsModulo(n, a, b)

ShiftAnswer(value, places, n) ==
  IF places >= 0 THEN Congruent(n, Unsigned(value) * 2 ^ places)
  ELSE Congruent(n, Unsigned(value) \div 2 ^ (-places))

(* The operators answer what the language says: integers wrap around, the  *)
(* quotient is rounded down and the remainder has the divisor's sign, the  *)
(* least integer and a divisor of -1 included; so has the remainder of     *)
(* floats; a shift moves zeros in, whichever way and however far.          *)
ArithIsExact ==
  LET a == last.left
      b == last.right
      answer == last.answer
  IN  /\ last.op \in Ariths \ {"Div"} /\ a.type = "int" /\ b.type = "int" =>
           IF last.op \in {"IDiv", "Mod"} /\ b.n = 0 THEN answer.type = "zero"
           ELSE answer.type = "int" /\ IntegerAnswer(last.op, a.n, b.n, answer.n)
      /\ (/\ last.op = "Mod" /\ {a.type, b.type} = {"float"}
          /\ b.n # 0 /\ ~IsInfinite(a.n) /\ ~IsInfinite(b.n)) =>
           answer.type = "float" /\ \E m \in -Abs(b.n) .. Abs(b.n) :
             IsModulo(m, a.n, b.n) /\ IsNearest(answer.n, m, 1)
      /\ last.op \in {"Shl", "Shr"} /\ HasInteger(a) /\ HasInteger(b) =>
           answer.type = "int"
             /\ ShiftAnswer(Integer(a), IF last.op = "Shl" THEN Integer(b) ELSE -Integer(b), answer.n)

(* Comparisons are those of the exact numbers, also between an integer and *)
(* a float that lies closer to it than its own neighbours; a NaN is        *)
(* neither less nor equal.                                                 *)
CompareIsExact ==
  last.op \in Compares \cup {"Equal"} /\ {last.left.type, last.right.type} \subseteq {"int", "float", "nan"} =>
    LET a == Exact(last.left)
        b == Exact(last.right)
        holds == CASE last.op = "Lt" -> a < b
                   [] last.op = "Le" -> a <= b
                   [] last.op = "Gt" -> a > b
                   [] last.op = "Ge" -> a >= b
                   [] last.op = "Equal" -> a = b
    IN  last.answer = Bool(holds /\ "nan" \notin {last.left.type, last.right.type})

(* Two values that are equal are one key of a table, and two that are not  *)
(* are two: what `==` and indexing say of a number is the same.            *)
EqualsShareAKey ==
  last.op = "Equal" /\ "nan" \notin {last.left.type, last.right.type} =>
    (last.answer = Bool(TRUE) <=> Normalize(last.left) = Normalize(last.right))
===============================================================================
