SPECIFICATION Spec
CONSTANTS
  Width = 5
  Precision = 3
  Fraction = 2
  Binades = 4
  DigitBits = 2
  MaxDigits = 4
  Exponents <- AllExponents
  Decimals <- AllDecimals
INVARIANTS NumeralIsNearest ArithIsExact CompareIsExact EqualsShareAKey
CHECK_DEADLOCK FALSE
