SPECIFICATION Spec
CONSTANTS
  first = first
  second = second
  none = none
  Key <- OneKey
  NoKey = none
  Legacy <- OneKey
  MaxAttempts = 2
  FenceTTL = 2
  MaxBoots = 3
  DirectSends = TRUE
PROPERTIES
  RequeuedWasUnsent
  EveryTurnSettles
CHECK_DEADLOCK FALSE
