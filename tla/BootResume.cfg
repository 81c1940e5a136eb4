SPECIFICATION Spec
CONSTANTS
  meeting = meeting
  prompt = prompt
  Item <- TwoItems
  SecondChance <- Meetings
  Limit = 1
  MaxBoots = 4
  MaxTime = 2
  MaxPhase = 2
INVARIANTS
  TypeOK
  LoopStops
PROPERTIES
  OnlyCrashesPark
CHECK_DEADLOCK FALSE
