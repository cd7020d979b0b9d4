CONSTANTS
  Names = {l}
  Blocks = {"do"}
  Globals = FALSE
  MaxStatements = 8
  MaxGotos = 1
  SkipsToTail = TRUE
SPECIFICATION Spec
INVARIANTS GotoClosesWhatDies
CHECK_DEADLOCK FALSE
