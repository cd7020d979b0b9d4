CONSTANTS
  s = s
  t = t
  a = a
  b = b
  Nil = Nil
  Idle = Idle
  Integers = {1, 2, 3}
  Others = {s, t}
  Hash <- Colliding
  Values = {a, b}
  ArrayHints = {0, 2}
  HashHints = {0, 2}
  Highest = 5
SPECIFICATION Spec
INVARIANTS TypeOK EveryKeyIsFound CursorHasPlace LengthIsABorder
PROPERTIES ImplementsTableMap
SYMMETRY Interchangeable
