SPECIFICATION Spec
CONSTANTS
  Request = {r1, r2}
  r1 = r1
  r2 = r2
  Mixes <- SomeMixes
  Client = {c1}
  Choice = {"allow"}
  LegacyWait = 2
  LongWait = 3
  Margin = 1
  Base = 1
  Away = 2
  Late = 0
  Keep = 0
  MacKeep = 0
  MacKeepMax = 1
  MaxPending = 2
  MaxSettled = 1
  MaxTime = 2
  MaxEvents = 1
  MaxRestarts = 1
CONSTRAINT Restarts
INVARIANTS
  TypeOK
  ToldIsTrue
  NeverPastTheHook
  MissingMeansMovedPast
  BackAtTheDesk
CHECK_DEADLOCK FALSE
