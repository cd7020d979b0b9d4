SPECIFICATION Spec
CONSTANTS
  Programs <- ScopedFunctions
  FieldsPerStore = 2
  Constants = 2
  Narrow = 1
INVARIANTS RangeIsTheScope
CHECK_DEADLOCK FALSE
