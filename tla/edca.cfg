SPECIFICATION Spec
CONSTANTS
  NTxops = 2
  Edca = {2}
  Aifsn <- MCAifsn
  Sifs = 1
  Slot = 2
  EifsNoDifs = 4
  FrameTime = 1
  AnswerTime = 3
  RxTimes = {2}
  CcaTimes = {1, 3}
  NavTimes = {3}
  NavResetTime = 2
  SwitchTime = 1
  MaxDraw = 1
  MaxFrames = 2
  MaxEvents = 3
INVARIANTS
  TypeOK
  BackoffCountsIdleSlots
  RequestIsTimed
  AccessIsBounded
  WorkIsRequested
PROPERTIES
  GrantsWait
  NoInterruption
