SPECIFICATION Spec
CHECK_DEADLOCK FALSE
CONSTANTS
  WifiOn = 10
  LaaOn = 7
  CtsDuration = 2
  AckDuration = 3
  FirstStart = 2
  MaxDelay = 2
  Sifs = 1
  Ifs = 2
  CtsAirtime = 2
  AckAirtime = 2
  RtsAirtime = 2
  DataAirtimes <- ShortAndLong
  OtherAirtimes <- BeaconAirtimes
  UplinkAirtimes <- AckedUplink
  UseRts = FALSE
  DurationFieldMax = 7
  MaxTime = 44
INVARIANTS
  PhyIsFreeWhenSending
