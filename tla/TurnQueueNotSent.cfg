SPECIFICATION Spec
CONSTANTS
  first = first
  second = second
  none = none
  Key <- OneKey
  NoKey = none
  Legacy = {}
  MaxAttempts = 2
  FenceTTL = 2
  MaxBoots = 1
  DirectSends = FALSE
INVARIANT
  NotSentIsTrue
CHECK_DEADLOCK FALSE
