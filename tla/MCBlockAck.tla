------------------------------ MODULE MCBlockAck ------------------------------
(* Model values and bounds for TLC.                                        *)
EXTENDS BlockAckSession
=============================================================================
