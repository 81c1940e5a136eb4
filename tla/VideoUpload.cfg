SPECIFICATION Spec
CONSTANTS
  m1 = m1
  m2 = m2
  item = item
  Asset <- Ids
  Owner <- Items
  Chunk <- TwoChunks
  NoOwner = NoOwner
  NoAsset = NoAsset
  MaxFails = 2
  MaxBoots = 2
INVARIANTS
  TypeOK
  DraftIsWhole
  NoStrayMedia
  PublishedIsKept
  CancelledStays
SYMMETRY Same
CHECK_DEADLOCK FALSE
