SPECIFICATION Spec
CONSTANTS
  a = a
  b = b
  ENV = ENV
  star = star
  Names <- WrittenNames
  Env <- ENV
  Wildcard <- star
  Locals <- AsLocal
  Globals <- AsGlobal
  MaxFunctions = 3
  MaxDeclared = 3
  MaxBlocks = 4
INVARIANTS NamesReachTheirVariable RefusedExactly CapturesAreInScope
CHECK_DEADLOCK FALSE
