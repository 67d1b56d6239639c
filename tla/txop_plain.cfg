SPECIFICATION FairSpec
CONSTANTS
  m1 = m1
  m2 = m2
  m3 = m3
  g1 = g1
  NoMsdu = NoMsdu
  Msdus <- MCMsdus
  GroupMsdus <- MCGroup
  MaxQueueSize = 2
  MaxAmpdu = 2
  MaxSsrc = 2
  UseRts = TRUE
  WindowMayClose = FALSE
  InternalCollisions = FALSE
  ResponsesOverlap = FALSE
INVARIANTS
  TypeOK
  InOnePlace
  WorkIsScheduled
  OutstandingIsCovered
  PendingIsResolved
PROPERTIES
  NothingIsForgotten
  EveryMsduLeaves
  BlockingEnds
