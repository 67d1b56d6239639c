SPECIFICATION Spec
CHECK_DEADLOCK FALSE
CONSTANTS
  WifiOn = 19
  LaaOn = 7
  CtsDuration = 9
  AckDuration = 3
  FirstStart = 2
  MaxDelay = 2
  Sifs = 1
  Ifs = 2
  CtsAirtime = 2
  AckAirtime = 4
  RtsAirtime = 2
  DataAirtimes <- ShortAndLong
  OtherAirtimes <- BeaconAirtimes
  UplinkAirtimes <- AckedUplink
  UseRts = TRUE
  DurationFieldMax = 7
  MaxTime = 64
INVARIANTS
  QosDataEndsInTime
  QosDataClearOfLaa
  QuietAfterReservation
