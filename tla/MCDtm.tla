-------------------------------- MODULE MCDtm --------------------------------
(* Small airtimes for TLC: one tick is about 18 us, SIFS is one tick.      *)
EXTENDS DtmCoordination

NoAirtimes     == {}
ShortAndLong   == {2, 5}
BeaconAirtimes == {3}
AckedUplink    == {2}
==============================================================================
