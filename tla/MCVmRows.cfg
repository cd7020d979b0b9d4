CONSTANTS
  a = a
  Nil = Nil
  Globals = a
  Native = Native
  All = All
  BadCount = BadCount
  Plain = {Nil, a}
  Programs <- Rows
  Main = "main"
  DEPTH = 2
  HEIGHT = 6
  Loads = {Native}
  HostResults <- Answers
  MaxItems = 2
  Names = {1, 2, 3, 4, 5, 6, 7}
SPECIFICATION Spec
INVARIANTS FramesNest RootsCover
PROPERTIES ImplementsLuaCalls
CHECK_DEADLOCK FALSE
