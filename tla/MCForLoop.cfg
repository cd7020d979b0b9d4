CONSTANTS
  High = 8
  Limits <- AllLimits
SPECIFICATION FairSpec
INVARIANTS TypeOK LeftIsExact
PROPERTIES Ends ImplementsProgression
CHECK_DEADLOCK FALSE
