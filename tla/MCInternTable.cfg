CONSTANTS
  Short = {"s", "t", "u", "v", "w", "x"}
  Long = {"long"}
  Hash <- Hashes
  InitialBuckets = 4
  MaxStrings = 7
SPECIFICATION Spec
INVARIANTS OneHandleEach EveryShortIsFound
CHECK_DEADLOCK FALSE
