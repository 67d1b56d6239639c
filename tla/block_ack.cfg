SPECIFICATION Spec
CONSTANTS
  SeqSpace = 10
  WinSize = 2
  Thresholds = {0, 1}
  ExplicitBar = {FALSE, TRUE}
  MaxMsdus = 12
  MaxQueued = 2
INVARIANTS
  TypeOK
  RecipientIsNotAhead
  GapIsAttended
PROPERTIES
  DeliversInOrder
  AckedIsReceived
CHECK_DEADLOCK FALSE
