CONSTANTS
  Slots = {0, 1, 2}
  Nil = Nil
  Values = {Nil, a}
  MaxCells = 4
SPECIFICATION Spec
INVARIANTS TypeOK OpenIsSorted ListMatchesArena
PROPERTIES ClosedForGood ImplementsSharedVariables
