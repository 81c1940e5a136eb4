SPECIFICATION Spec
CONSTANTS
  first = first
  second = second
  none = none
  Key <- TwoKeys
  NoKey = none
  Legacy = {}
  MaxAttempts = 2
  FenceTTL = 1
  MaxBoots = 2
  DirectSends = TRUE
INVARIANTS
  TypeOK
  WordsSentOnce
PROPERTIES
  SettledStays
SYMMETRY Same
CHECK_DEADLOCK FALSE
