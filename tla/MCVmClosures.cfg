CONSTANTS
  a = a
  Nil = Nil
  Globals = a
  Native = Native
  All = All
  BadCount = BadCount
  Plain = {Nil, a}
  Programs <- CaptureAndNamed
  Main = "main"
  DEPTH = 2
  HEIGHT = 8
  Loads = {a}
  HostResults <- NoHost
  MaxItems = 2
  Names = {1, 2, 3, 4, 5, 6, 7}
SPECIFICATION Spec
INVARIANTS TypeOK OpenSlotsAreLocals
PROPERTIES ImplementsLuaCalls
CHECK_DEADLOCK FALSE
