SPECIFICATION FairSpec
CONSTANTS
  m1 = m1
  m2 = m2
  m3 = m3
  g1 = g1
  NoMsdu = NoMsdu
  Msdus <- MCMsdus
  GroupMsdus <- MCGroup
  MaxQueueSize = 2
  MaxAmpdu = 2
  MaxSsrc = 1
  UseRts = FALSE
  WindowMayClose = FALSE
  InternalCollisions = TRUE
  ResponsesOverlap = FALSE
PROPERTIES
  BlockingEnds
