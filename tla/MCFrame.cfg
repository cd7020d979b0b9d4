SPECIFICATION Spec
CONSTANTS
  Programs <- AllFunctions
  FieldsPerStore = 2
  Constants = 2
  Narrow = 1
INVARIANTS EmitsBeforeTheEnd ReadsAgree LocalsHold LinesAgree OriginsHold
CHECK_DEADLOCK FALSE
