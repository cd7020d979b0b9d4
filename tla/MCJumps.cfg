CONSTANTS
  Names = {l}
  Blocks = {"do", "if", "while", "repeat", "for"}
  Globals = TRUE
  MaxStatements = 7
  MaxGotos = 2
  SkipsToTail = FALSE
SPECIFICATION Spec
INVARIANTS TypeOK NoJumpIntoScope GotoClosesWhatDies GotoKeepsWhatLives BlocksCloseWhatDies EveryGotoArrives
CHECK_DEADLOCK FALSE
