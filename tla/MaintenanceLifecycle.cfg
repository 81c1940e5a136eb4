SPECIFICATION FairSpec
CONSTANTS
  Operation <- UpdateAndHold
  Generation <- Builds
  Work = {w1, w2}
  MaxBoots = 3
  MaxLeases = 2
INVARIANTS
  TypeOK
  ClosedWhileCommitted
  ProofHolds
PROPERTIES
  EndsAsAuthorized
  RuntimeStarts
  SameBootEnds
CHECK_DEADLOCK FALSE
