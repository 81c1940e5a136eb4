SPECIFICATION Spec
CONSTANTS
  photo = photo
  video = video
  q1 = q1
  q2 = q2
  Asset <- PhotoAndVideo
  Video <- Videos
  Owner <- Items
  NoOwner = NoOwner
  MaxFails = 1
  MaxBoots = 2
INVARIANT AssociationIsSaved
CHECK_DEADLOCK FALSE
