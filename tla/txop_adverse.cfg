SPECIFICATION Spec
CONSTANTS
  m1 = m1
  m2 = m2
  m3 = m3
  g1 = g1
  NoMsdu = NoMsdu
  Msdus <- MCThreeMsdus
  GroupMsdus <- MCGroup
  MaxQueueSize = 2
  MaxAmpdu = 3
  MaxSsrc = 1
  UseRts = FALSE
  WindowMayClose = TRUE
  InternalCollisions = TRUE
  ResponsesOverlap = FALSE
CHECK_DEADLOCK FALSE
INVARIANTS
  InOnePlace
  HeldIsNotUnderAgreement
