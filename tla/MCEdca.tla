------------------------------- MODULE MCEdca -------------------------------
(* EdcaContention for TLC: the DCF of a device and one EDCA function of it *)
EXTENDS EdcaContention

MCAifsn == [t \in Txops |-> IF t \in Edca THEN 1 ELSE 2]
=============================================================================
